---- MODULE Spec2Model ----
(***************************************************************************)
(* Transaction serialisation and signing of piston-lib,                    *)
(* src/steembase/transactions.py (class Signed_Transaction and the types   *)
(* it is built from).                                                      *)
(*                                                                         *)
(* Byte strings are sequences of numbers 0..255, text strings sequences of *)
(* code points.  TLC's integers are 32 bit wide, so                        *)
(*   - a uint32 field value is the record [hi, lo] of its two 16-bit       *)
(*     halves (Wide);                                                      *)
(*   - the elliptic curve is secp256k1 scaled down to 16 bit: the same     *)
(*     equation y^2 = x^3 + 7 over a prime field with p % 4 = 3, a group   *)
(*     of prime order n < p, and numbers of baselen = 2 bytes instead of   *)
(*     32.  A signature is 1 + 2*baselen bytes and "length 32" of the DER  *)
(*     integers reads "length baselen";                                    *)
(*   - sha256 and the RFC6979 nonce derivation of the ecdsa package are    *)
(*     deterministic 16-bit stand-ins that read every byte of their input. *)
(***************************************************************************)
EXTENDS Integers, Sequences, FiniteSets, TLC

(***************************************************************************)
(* Generic helpers                                                         *)
(***************************************************************************)
RECURSIVE Flatten(_)
Flatten(ss) == IF ss = <<>> THEN <<>> ELSE Head(ss) \o Flatten(Tail(ss))

Range(s) == {s[j] : j \in 1..Len(s)}

\* n as big-endian base-256 digits, at least one digit
RECURSIVE BigEndian(_)
BigEndian(n) == IF n < 256 THEN <<n>> ELSE Append(BigEndian(n \div 256), n % 256)

RECURSIVE FromBigEndian(_)
FromBigEndian(bs) ==
  IF bs = <<>> THEN 0
  ELSE FromBigEndian(SubSeq(bs, 1, Len(bs) - 1)) * 256 + bs[Len(bs)]

Wide(v) == [hi |-> v \div 65536, lo |-> v % 65536]

(***************************************************************************)
(* Primitive types: the __bytes__ of each class                            *)
(***************************************************************************)
\* varint(n)
RECURSIVE varint(_)
varint(n) == IF n >= 128 THEN <<(n % 128) + 128>> \o varint(n \div 128) ELSE <<n>>

\* Uint16.__bytes__ : struct.pack("<H", d)
Uint16(d) == <<d % 256, d \div 256>>

\* Int16.__bytes__ : struct.pack("<h", int(d)), two's complement
Int16(d) == LET u == IF d < 0 THEN d + 65536 ELSE d IN <<u % 256, u \div 256>>

\* Uint32.__bytes__ : struct.pack("<I", d), d a Wide value
Uint32(d) == Uint16(d.lo) \o Uint16(d.hi)

\* the UTF-8 encoding of one code point: bytes(data, 'utf-8')
utf8char(c) ==
  IF c < 128 THEN <<c>>
  ELSE IF c < 2048 THEN <<192 + (c \div 64), 128 + (c % 64)>>
  ELSE <<224 + (c \div 4096), 128 + ((c \div 64) % 64), 128 + (c % 64)>>

utf8(s) == Flatten([j \in 1..Len(s) |-> utf8char(s[j])])

\* String.__bytes__ : varint(len(self.data)) + bytes(self.data, 'utf-8')
String(d) == varint(Len(d)) \o utf8(d)

\* an array that keeps one copy of each element
RECURSIVE distinct(_)
distinct(elems) ==
  IF elems = <<>> THEN <<>>
  ELSE IF elems[Len(elems)] \in Range(SubSeq(elems, 1, Len(elems) - 1))
       THEN distinct(SubSeq(elems, 1, Len(elems) - 1))
       ELSE Append(distinct(SubSeq(elems, 1, Len(elems) - 1)), elems[Len(elems)])

Array_distinct(elems) == varint(Len(distinct(elems))) \o Flatten(distinct(elems))

\* Array.__bytes__ over already encoded elements: length varint + elements
Array(elems) == varint(Len(elems)) \o Flatten(elems)

\* class Set(Array)
Set(elems) == Array(elems)

\* calendar.timegm of the parsed time <<Y, M, D, h, m, s>> (UTC)
timegm(t) ==
  LET y   == IF t[2] <= 2 THEN t[1] - 1 ELSE t[1]
      era == y \div 400
      yoe == y - era * 400
      mp  == IF t[2] > 2 THEN t[2] - 3 ELSE t[2] + 9
      doy == (153 * mp + 2) \div 5 + t[3] - 1
      doe == yoe * 365 + yoe \div 4 - yoe \div 100 + doy
      days == era * 146097 + doe - 719468
  IN days * 86400 + t[4] * 3600 + t[5] * 60 + t[6]

\* PointInTime.__bytes__ : struct.pack("<I", timegm(strptime(data + "UTC")))
PointInTime(d) == Uint32(Wide(timegm(d)))

\* Signature.__bytes__ : the raw data
Signature(d) == d

(***************************************************************************)
(* Operations                                                              *)
(***************************************************************************)
\* the dict operations, lines 45-70, as its items in insertion order
operationItems ==
  <<<<"vote", 0>>,
   <<"comment", 1>>,
   <<"transfer", 2>>,
   <<"transfer_to_vesting", 3>>,
   <<"withdraw_vesting", 4>>,
   <<"limit_order_create", 5>>,
   <<"limit_order_cancel", 6>>,
   <<"feed_publish", 7>>,
   <<"convert", 8>>,
   <<"account_create", 9>>,
   <<"account_update", 10>>,
   <<"witness_update", 11>>,
   <<"account_witness_vote", 12>>,
   <<"account_witness_proxy", 13>>,
   <<"pow", 14>>,
   <<"custom", 15>>,
   <<"report_over_production", 16>>,
   <<"fill_convert_request", 17>>,
   <<"comment_reward", 18>>,
   <<"curate_reward", 19>>,
   <<"liquidity_reward", 20>>,
   <<"interest", 21>>,
   <<"fill_vesting_withdraw", 22>>,
   <<"fill_order", 23>>>>

operationNames == {operationItems[j][1] : j \in 1..Len(operationItems)}

\* operations[name]; -1 stands for the KeyError of a name that is no key
operations(name) ==
  IF name \in operationNames
  THEN operationItems[CHOOSE j \in 1..Len(operationItems) : operationItems[j][1] = name][2]
  ELSE -1

\* a str: a text, and the number formatted into it if there is one
Str(text, n) == [kind |-> "str", text |-> text, n |-> n]

\* getOperationNameForId(i), lines 76-82: the first key whose id is i, or
\* "Unknown Operation ID %d" % i
RECURSIVE getOperationNameFrom(_, _)
getOperationNameFrom(i, j) ==
  IF j > Len(operationItems) THEN Str("Unknown Operation ID %d", i)
  ELSE IF operationItems[j][2] = i THEN Str(operationItems[j][1], -1)
  ELSE getOperationNameFrom(i, j + 1)

getOperationNameForId(i) == getOperationNameFrom(i, 1)

\* Vote.__bytes__ (SteemObject.__bytes__ over voter, author, permlink, weight)
Vote(op) == String(op.voter) \o String(op.author) \o String(op.permlink) \o Int16(op.weight)

\* Id.__bytes__
Id(d) == varint(d)

\* Operation.__bytes__ : bytes(Id(self.opId)) + bytes(self.op)
Operation(op) == Id(operations(op.name)) \o Vote(op)


(***************************************************************************)
(* The ecdsa package on the scaled curve.  Points are <<x, y>>, INFINITY   *)
(* is <<>>.  Products are reduced before they can leave 32 bits; the       *)
(* results are those of the package's unbounded integers.                  *)
(***************************************************************************)
\* ecdsa.SECP256k1.curve.p(), .a(), .b(), ecdsa.SECP256k1.order (16-bit scale)
curve_p == 39607
curve_a == 0
curve_b == 7
order == 39217
\* ecdsa.SECP256k1.generator
G == <<1, 37436>>
\* ecdsa.SECP256k1.baselen: bytes of one number (32 on secp256k1)
baselen == 2
INFINITY == <<>>

MulMod(a, b, m) == ((a % m) * (b % m)) % m

\* h^(2^n) % m by n squarings
RECURSIVE square_times(_, _, _)
square_times(h, n, m) ==
  IF n = 0 THEN h % m ELSE square_times(MulMod(h, h, m), n - 1, m)

\* b^d % m for one hex digit d, by square and multiply
RECURSIVE modular_exp_digit(_, _, _)
modular_exp_digit(b, d, m) ==
  IF d = 0 THEN 1 % m
  ELSE MulMod(square_times(modular_exp_digit(b, d \div 2, m), 1, m),
              IF d % 2 = 1 THEN b ELSE 1, m)

\* h^16 * b^d from h = b^(e \div 16)
modular_exp_step(h, b, d, m) ==
  IF h = 0 THEN 0
  ELSE MulMod(square_times(h, 4, m), modular_exp_digit(b, d, m), m)

\* numbertheory.modular_exp(base, exponent, modulus), a hex digit of the
\* exponent at a time
RECURSIVE modular_exp(_, _, _)
modular_exp(b, e, m) ==
  IF e = 0 THEN 1 % m
  ELSE modular_exp_step(modular_exp(b, e \div 16, m), b, e % 16, m)

\* numbertheory.inverse_mod(a, m) for a prime m and a % m # 0
inverse_mod(a, m) == modular_exp(a % m, m - 2, m)

\* the third point of the curve on the line of slope l through P1 and P2,
\* mirrored: its ordinate from its abscissa x3
PointOnLineAt(P1, l, x3) ==
  <<x3, (MulMod(l, P1[1] - x3, curve_p) - P1[2]) % curve_p>>

PointOnLine(P1, P2, l) ==
  PointOnLineAt(P1, l, (MulMod(l, l, curve_p) - P1[1] - P2[1]) % curve_p)

\* ellipticcurve.Point.double
PointDouble(P) ==
  IF P = INFINITY THEN INFINITY
  ELSE PointOnLine(P, P, MulMod(3 * MulMod(P[1], P[1], curve_p) + curve_a,
                                inverse_mod(2 * P[2], curve_p), curve_p))

\* ellipticcurve.Point.__add__
PointAdd(P1, P2) ==
  IF P2 = INFINITY THEN P1
  ELSE IF P1 = INFINITY THEN P2
  ELSE IF P1[1] = P2[1]
       THEN IF (P1[2] + P2[2]) % curve_p = 0 THEN INFINITY ELSE PointDouble(P1)
       ELSE PointOnLine(P1, P2, MulMod(P2[2] - P1[2],
                                       inverse_mod(P2[1] - P1[1], curve_p), curve_p))

\* 2^n * P by n doublings
RECURSIVE double_times(_, _)
double_times(P, n) == IF n = 0 THEN P ELSE double_times(PointDouble(P), n - 1)

\* d * P for one hex digit d, by double and add
RECURSIVE PointMulDigit(_, _)
PointMulDigit(P, d) ==
  IF d = 0 THEN INFINITY
  ELSE PointAdd(PointDouble(PointMulDigit(P, d \div 2)),
                IF d % 2 = 1 THEN P ELSE INFINITY)

\* 16 * h + d * P from h = (e \div 16) * P
PointMulStep(h, P, d) ==
  IF h = INFINITY THEN PointMulDigit(P, d)
  ELSE PointAdd(double_times(h, 4), PointMulDigit(P, d))

RECURSIVE PointMulRec(_, _)
PointMulRec(P, e) ==
  IF e = 0 THEN INFINITY ELSE PointMulStep(PointMulRec(P, e \div 16), P, e % 16)

\* ellipticcurve.Point.__mul__, a hex digit of e at a time; e is taken
\* modulo the point's order
PointMul(P, e) == IF P = INFINITY THEN INFINITY ELSE PointMulRec(P, e % order)

\* numbertheory.square_root_mod_prime(a, p) for p % 4 = 3; -1 stands for
\* SquareRootError (jacobi(a, p) = -1)
square_root_mod_prime(a, p) ==
  IF a = 0 THEN 0
  ELSE IF modular_exp(a, (p - 1) \div 2, p) # 1 THEN -1
  ELSE modular_exp(a, (p + 1) \div 4, p)

\* util.number_to_string(num, order): baselen bytes, big endian, zero padded
number_to_string(num) ==
  LET d == BigEndian(num)
  IN [j \in 1..(baselen - Len(d)) |-> 0] \o d

\* util.string_to_number
string_to_number(bs) == FromBigEndian(bs)

\* util.sigencode_string(r, s, order)
sigencode_string(r, s) == number_to_string(r) \o number_to_string(s)

\* util.sigdecode_string(signature, order)
sigdecode_string(signature) ==
  <<string_to_number(SubSeq(signature, 1, baselen)),
    string_to_number(SubSeq(signature, baselen + 1, 2 * baselen))>>

\* der.encode_integer: minimal big-endian bytes, 0x00 in front when the top
\* bit is set, behind the tag 0x02 and the length
encode_integer(v) ==
  LET d == BigEndian(v)
      body == IF d[1] >= 128 THEN <<0>> \o d ELSE d
  IN <<2, Len(body)>> \o body

\* util.sigencode_der(r, s, order): encode_sequence(encode_integer(r), encode_integer(s))
sigencode_der(r, s) ==
  LET body == encode_integer(r) \o encode_integer(s)
  IN <<48, Len(body)>> \o body

\* util.sigdecode_der(sigder, order)
sigdecode_der(sigder) ==
  LET lenR == sigder[4]
      lenS == sigder[6 + lenR]
  IN <<FromBigEndian(SubSeq(sigder, 5, 4 + lenR)),
       FromBigEndian(SubSeq(sigder, 7 + lenR, 6 + lenR + lenS))>>

\* hashlib.sha256(data).digest(), scaled to 16 bit: the fold
\* h <- (h * 251 + byte + 1) % sha_modulus from h = 7 over all bytes, computed
\* by halving so that long messages need no deep recursion
sha_modulus == 46337

RECURSIVE sha_poly(_, _, _)
sha_poly(bs, lo, hi) ==
  IF lo > hi THEN 0
  ELSE IF lo = hi THEN bs[lo] + 1
  ELSE LET mid == (lo + hi) \div 2
       IN (MulMod(sha_poly(bs, lo, mid), modular_exp(251, hi - mid, sha_modulus),
                  sha_modulus)
             + sha_poly(bs, mid + 1, hi)) % sha_modulus

sha256(bs) ==
  LET h == (MulMod(7, modular_exp(251, Len(bs), sha_modulus), sha_modulus)
              + sha_poly(bs, 1, Len(bs))) % sha_modulus
  IN <<h \div 256, h % 256>>

\* ecdsa.rfc6979.generate_k(order, secexp, hashfunc, data): a deterministic
\* nonce in 1..order-1 from the secret and the data
generate_k(secexp, data) ==
  1 + (string_to_number(sha256(number_to_string(secexp) \o data)) % (order - 1))

\* ecdsa.Private_key.sign(hash, k) behind SigningKey.sign_digest: <<r, s>>
sign_number_from(secexp, e, k, r) ==
  <<r, MulMod(inverse_mod(k, order), (e % order) + MulMod(secexp, r, order), order)>>

sign_number(secexp, e, k) == sign_number_from(secexp, e, k, PointMul(G, k)[1] % order)

\* SigningKey.get_verifying_key(): the public point secexp * G
get_verifying_key(secexp) == PointMul(G, secexp)

\* ecdsa.Public_key.verifies(hash, signature)
verifies_at(Q, e, r, c) ==
  PointAdd(PointMul(G, MulMod(e, c, order)), PointMul(Q, MulMod(r, c, order)))

verifies_point(xy, r) == xy # INFINITY /\ xy[1] % order = r

verifies(Q, e, r, s) ==
  IF r < 1 \/ r > order - 1 \/ s < 1 \/ s > order - 1 THEN FALSE
  ELSE verifies_point(verifies_at(Q, e, r, inverse_mod(s, order)), r)

\* verify_digest answering False where the package raises
verify_digest_bool(Q, signature, digest) ==
  IF verifies(Q, string_to_number(digest), sigdecode_string(signature)[1],
              sigdecode_string(signature)[2])
  THEN "True" ELSE "False"

\* VerifyingKey.verify_digest(signature, digest, sigdecode_string): True, or
\* it raises BadSignatureError; it never returns False
verify_digest(Q, signature, digest) ==
  IF verifies(Q, string_to_number(digest), sigdecode_string(signature)[1],
              sigdecode_string(signature)[2])
  THEN "True" ELSE "BadSignatureError"

(***************************************************************************)
(* Signed_Transaction                                                      *)
(***************************************************************************)
\* what a method hands back: a key, an int, None, or a raised exception
RetKey(Q) == [kind |-> "key", Q |-> Q, i |-> -1, error |-> ""]
RetInt(i) == [kind |-> "int", Q |-> INFINITY, i |-> i, error |-> ""]
RetNone == [kind |-> "None", Q |-> INFINITY, i |-> -1, error |-> ""]
Raised(e) == [kind |-> "raise", Q |-> INFINITY, i |-> -1, error |-> e]

\* binascii.unhexlify over hex digits given by their values 0..15
unhexlify(h) == [j \in 1..(Len(h) \div 2) |-> 16 * h[2 * j - 1] + h[2 * j]]

\* chain_params["chain_id"] : "0" * int(256 / 4)
chain_id == [j \in 1..64 |-> 0]

\* Signed_Transaction.__init__(**kwargs): self.data.  kwargs["extensions"]
\* is defaulted to Set([]) and then left out of the OrderedDict.
Signed_Transaction(kwargs) ==
  [ref_block_num    |-> kwargs.ref_block_num,
   ref_block_prefix |-> kwargs.ref_block_prefix,
   expiration       |-> kwargs.expiration,
   operations       |-> kwargs.operations,
   signatures       |-> [j \in 1..Len(kwargs.signatures) |-> unhexlify(kwargs.signatures[j])]]

\* SteemObject.__bytes__ of a Signed_Transaction: the items of self.data in order
bytes(data) ==
  Uint16(data.ref_block_num) \o Uint32(data.ref_block_prefix)
    \o PointInTime(data.expiration)
    \o Array([j \in 1..Len(data.operations) |-> Operation(data.operations[j])])
    \o Array([j \in 1..Len(data.signatures) |-> Signature(data.signatures[j])])

\* recover_public_key, lines 515-517: the key Q once the signature verifies
\* under it; v is what verify_digest answers
recover_verified(Q, v) ==
  IF v = "BadSignatureError" THEN Raised(v)
  ELSE IF v = "False" THEN RetNone
  ELSE RetKey(Q)

\* recover_public_key, line 515: from_public_point(Q) fails on INFINITY
recover_key(Q, digest, signature) ==
  IF Q = INFINITY THEN Raised("TypeError")
  ELSE recover_verified(Q, verify_digest(Q, signature, digest))

\* recover_public_key, lines 509-513: Q = r^-1 (sR - eG) with R = (x, y)
recover_Q(x, y, r, s, e) ==
  PointMul(PointAdd(PointMul(<<x, y>>, s), PointMul(G, (0 - e) % order)),
           inverse_mod(r, order))

\* recover_public_key, lines 503-513: y from beta and the parity yp
recover_from_root(digest, signature, x, beta, yp, r, s) ==
  IF beta = -1 THEN Raised("SquareRootError")
  ELSE IF r % order = 0 THEN Raised("AssertionError")
  ELSE recover_key(recover_Q(x, (IF (beta - yp) % 2 = 0 THEN beta ELSE curve_p - beta)
                                  % curve_p,
                             r, s, string_to_number(digest)),
                   digest, signature)

\* recover_public_key, lines 502-503: alpha = x^3 + a x + b, beta its root
recover_from_x(digest, signature, x, yp, r, s) ==
  recover_from_root(digest, signature, x,
    square_root_mod_prime((MulMod(MulMod(x, x, curve_p), x, curve_p)
                             + MulMod(curve_a, x, curve_p) + curve_b) % curve_p,
                          curve_p),
    yp, r, s)

\* recover_public_key, lines 494-499: r, s and x = r + isSecondKey * order
recover_from_rs(digest, signature, i, r, s) ==
  recover_from_x(digest, signature, (r + (i \div 2) * order) % curve_p,
                 IF i % 2 = 0 THEN 0 ELSE 1, r, s)

\* Signed_Transaction.recover_public_key(digest, signature, i)
recover_public_key(digest, signature, i) ==
  IF Len(signature) # 2 * baselen THEN Raised("AssertionError")
  ELSE recover_from_rs(digest, signature, i, sigdecode_string(signature)[1],
                       sigdecode_string(signature)[2])

\* recoverPubkeyParameter, lines 471-473: p is the key recovered with i;
\* None has no to_string
RECURSIVE recoverPubkeyParameterFrom(_, _, _, _)
\* the loop taking the first i that recovers any key, pubkey not compared
recoverPubkeyParameterNext_any(digest, signature, pubkey, i, p) ==
  IF p.kind = "raise" THEN p
  ELSE IF p.kind = "None" THEN Raised("AttributeError")
  ELSE RetInt(i)

recoverPubkeyParameterNext(digest, signature, pubkey, i, p) ==
  IF p.kind = "raise" THEN p
  ELSE IF p.kind = "None" THEN Raised("AttributeError")
  ELSE IF p.Q = pubkey THEN RetInt(i)
  ELSE recoverPubkeyParameterFrom(digest, signature, pubkey, i + 1)

\* Signed_Transaction.recoverPubkeyParameter(digest, signature, pubkey):
\* the loop from candidate i on
recoverPubkeyParameterFrom(digest, signature, pubkey, i) ==
  IF i > 3 THEN RetNone
  ELSE recoverPubkeyParameterNext(digest, signature, pubkey, i,
                                  recover_public_key(digest, signature, i))

recoverPubkeyParameter(digest, signature, pubkey) ==
  recoverPubkeyParameterFrom(digest, signature, pubkey, 0)

\* b'%x' % cnt : lower-case hex digits in ASCII
RECURSIVE hex(_)
hex(n) ==
  LET d == n % 16
      c == IF d < 10 THEN 48 + d ELSE 87 + d
  IN IF n < 16 THEN <<c>> ELSE Append(hex(n \div 16), c)

\* the unique keys with the last occurrence kept
RECURSIVE unique_last(_)
unique_last(wifs) ==
  IF wifs = <<>> THEN <<>>
  ELSE LET rest == unique_last(Tail(wifs))
       IN IF Head(wifs) \in Range(rest) THEN rest ELSE <<Head(wifs)>> \o rest

\* sign(), lines 526-528: the unique private keys, first occurrence kept
RECURSIVE unique(_)
unique(wifs) ==
  IF wifs = <<>> THEN <<>>
  ELSE LET front == unique(SubSeq(wifs, 1, Len(wifs) - 1))
           item == wifs[Len(wifs)]
       IN IF item \in Range(front) THEN front ELSE Append(front, item)

\* sign(), lines 536-537: the digest of chain id and wire bytes
deriveDigest(data) == sha256(unhexlify(chain_id) \o bytes(data))

\* line 531: self.chainid = chain_params["chain_id"], whatever chain names
chainid(chain) == chain_id

\* lines 531-537 for sign(wifkeys, chain)
digestFor(data, chain) == sha256(unhexlify(chainid(chain)) \o bytes(data))

\* bytes(PrivateKey(wif)) as a number: the secret exponent of a WIF key
PrivateKey(wif) ==
  CASE wif = "wifA" -> 1234
    [] wif = "wifB" -> 31337

\* sign(), lines 553-574: the cnt-th candidate signature of a key
candidate_of(k, r, s, sigder) ==
  [k |-> k, r |-> r, s |-> s, sigder |-> sigder,
   signature |-> sigencode_string(r, s),
   lenR |-> sigder[4], lenS |-> sigder[6 + sigder[4]]]

\* lines 568-569: r, s = sigdecode_der(sigder)
candidate_der(k, sigder) ==
  candidate_of(k, sigdecode_der(sigder)[1], sigdecode_der(sigder)[2], sigder)

\* lines 561-564: sigder = sk.sign_digest(self.digest, sigencode_der, k)
candidate_rs(k, rs) == candidate_der(k, sigencode_der(rs[1], rs[2]))

candidate_k(secexp, digest, k) ==
  candidate_rs(k, sign_number(secexp, string_to_number(digest), k))

candidate(secexp, digest, cnt) ==
  candidate_k(secexp, digest, generate_k(secexp, sha256(digest \o hex(cnt))))

\* the canonical test looking at r alone
isCanonical_r(c) == c.lenR = baselen

\* sign(), line 575: the candidate is canonical
isCanonical(c) == c.lenR = baselen /\ c.lenS = baselen

\* the packed signature without the offset 4 of compressed keys
pack_compact(i, signature) == <<i + 27>> \o signature

\* sign(), lines 579-586: the packed signature
pack(i, signature) == <<i + 4 + 27>> \o signature

(***************************************************************************)
(* Bounds and inputs                                                       *)
(***************************************************************************)
\* longest key list handed to sign()
MaxKeys == 3
\* sign() calls on one transaction
MaxSignCalls == 2
\* attempts of the canonical search the model follows for one key
MaxAttempts == 6

Wifs == {"wifA", "wifB"}

\* values of sign()'s chain argument: its default and another identifier
Chains == {"STEEM", "GOLOS"}

RECURSIVE SeqsUpTo(_, _)
SeqsUpTo(S, n) ==
  IF n = 0 THEN {<<>>}
  ELSE LET shorter == SeqsUpTo(S, n - 1)
       IN shorter \cup {Append(q, e) : q \in {w \in shorter : Len(w) = n - 1}, e \in S}

KeyLists == SeqsUpTo(Wifs, MaxKeys)

foobara == <<102, 111, 111, 98, 97, 114, 97>>
foobarc == <<102, 111, 111, 98, 97, 114, 99>>
foobard == <<102, 111, 111, 98, 97, 114, 100>>

\* the Vote of test_Vote, and a second one
VoteA == [name |-> "vote", voter |-> foobara, author |-> foobarc,
          permlink |-> foobard, weight |-> 1000]
VoteB == [name |-> "vote", voter |-> foobarc, author |-> foobara,
          permlink |-> <<>>, weight |-> -100]

\* a signature a caller passes to the constructor, as hex digits
HexSig == <<1, 15, 3, 13, 3, 5, 3, 12, 6, 7>>

Kwargs ==
  [ref_block_num    : {34294, 146},
   ref_block_prefix : {[hi |-> 56564, lo |-> 43909]},
   expiration       : {<<2016, 4, 6, 8, 29, 27>>},
   operations       : {<<VoteA>>, <<VoteB, VoteA>>},
   signatures       : {<<>>, <<HexSig>>}]

(***************************************************************************)
(* State                                                                   *)
(***************************************************************************)
VARIABLES
  tx,        \* self.data of the transaction
  pc,        \* "idle", or "sign" while sign() runs
  wifkeys,   \* the argument of the running or last sign()
  privkeys,  \* self.privkeys
  digest,    \* self.digest
  sigs,      \* sign()'s local list sigs
  widx,      \* position of the for loop in self.privkeys
  cnt,       \* sign()'s attempt counter
  outcome,   \* how the last sign() ended: "ok" or the exception raised
  before,    \* tx.signatures when the running or last sign() was entered
  made,      \* for each element of sigs: the key, recovery id and attempt
  nsign,     \* sign() calls so far
  rec,       \* a direct call of a recovery method: its arguments and result
  chain,     \* the chain argument of the running or last sign()
  call,      \* a direct call of another method or function, and its result
  tried,     \* every signature the loop of sign() has made: the run, the
             \* key, the digest, the attempt, the nonce and the signature
  gen,       \* the frame of a running generator: its function, arguments,
             \* locals and position, and what it has yielded or parsed
  client,    \* a SteemAsyncClient: _witness_call_id, _witness_pending_rpc,
             \* the futures it has made, and the state of the loop of _handle
  wallet     \* the class Wallet: its attribute keys, and its instances

\* the state of the node clients
services == <<gen, client, wallet>>

vars == <<tx, pc, wifkeys, privkeys, digest, sigs, widx, cnt, outcome,
          before, made, nsign, rec, chain, call, tried, services>>

\* no generator has been created
NoGen == [op |-> "", pc |-> "none"]

\* SteemAsyncClient.__init__, lines 162-170, with no future made, no
\* request sent and no response handled
NewClient ==
  [_witness_call_id |-> 0, _witness_pending_rpc |-> {}, futures |-> <<>>,
   sent |-> {}, loop |-> "running", handled |-> <<>>]

\* the class Wallet before any instance is made: keys = {}, line 52
NewWallet == [keys |-> <<>>, instances |-> <<>>, asked |-> <<>>]

NoCall == [op |-> "", called |-> FALSE]

NoRec == [op |-> "", digest |-> <<>>, signature |-> <<>>, i |-> 0,
          pubkey |-> INFINITY, called |-> FALSE, result |-> RetNone]

Init ==
  /\ tx \in {Signed_Transaction(kw) : kw \in Kwargs}
  /\ pc = "idle"
  /\ wifkeys = <<>>
  /\ privkeys = <<>>
  /\ digest = <<>>
  /\ sigs = <<>>
  /\ widx = 1
  /\ cnt = 0
  /\ outcome = "none"
  /\ before = <<>>
  /\ made = <<>>
  /\ nsign = 0
  /\ rec = NoRec
  /\ chain = "STEEM"
  /\ call = NoCall
  /\ tried = {}
  /\ gen = NoGen
  /\ client = NewClient
  /\ wallet = NewWallet

(***************************************************************************)
(* sign(wifkeys)                                                           *)
(***************************************************************************)
\* lines 526-540: unique keys, digest, sigs = []
sign(keys, chainArg) ==
  /\ pc = "idle"
  /\ nsign < MaxSignCalls
  /\ pc' = "sign"
  /\ nsign' = nsign + 1
  /\ wifkeys' = keys
  /\ privkeys' = unique(keys)
  /\ chain' = chainArg
  /\ digest' = digestFor(tx, chainArg)
  /\ sigs' = <<>>
  /\ made' = <<>>
  /\ widx' = 1
  /\ cnt' = 0
  /\ before' = tx.signatures
  /\ outcome' = "running"
  /\ UNCHANGED <<tx, rec, call, tried, services>>

\* the candidate when the attempt counter is not reset between calls
nextCandidate_carried == candidate(PrivateKey(privkeys[widx]), digest, cnt + nsign)

\* the candidate the next pass of the while loop makes (lines 547-574)
nextCandidate == candidate(PrivateKey(privkeys[widx]), digest, cnt + 1)

\* the recovery parameter of candidate c (line 578)
nextParameter(c) ==
  recoverPubkeyParameter(digest, c.signature,
                         get_verifying_key(PrivateKey(privkeys[widx])))

inLoop == pc = "sign" /\ widx <= Len(privkeys) /\ cnt < MaxAttempts

\* Private_key.sign raises RuntimeError on r = 0 or s = 0
unlucky(c) == c.r = 0 \/ c.s = 0

\* a pass of the loop that made a signature from candidate c
attempt(c) ==
  [run |-> nsign, wif |-> privkeys[widx], digest |-> digest, n |-> cnt + 1,
   k |-> c.k, signature |-> c.signature, emitted |-> isCanonical(c)]

\* a pass of the while loop whose candidate is not canonical: next pass
sign_retry ==
  /\ inLoop
  /\ \E c \in {nextCandidate} :
       /\ ~unlucky(c) /\ ~isCanonical(c)
       /\ tried' = tried \cup {attempt(c)}
  /\ cnt' = cnt + 1
  /\ UNCHANGED <<tx, pc, wifkeys, privkeys, digest, sigs, widx, outcome,
                 before, made, nsign, rec, chain, call, services>>

\* a pass whose candidate is canonical and whose recovery parameter is found:
\* break, pack, append to sigs, next key (lines 575-588)
sign_emit ==
  /\ inLoop
  /\ \E c \in {nextCandidate} :
       /\ ~unlucky(c) /\ isCanonical(c)
       /\ \E param \in {nextParameter(c)} :
            /\ param.kind = "int"
            /\ sigs' = Append(sigs, pack(param.i, c.signature))
            /\ made' = Append(made, [wif |-> privkeys[widx], i |-> param.i,
                                     cnt |-> cnt + 1])
            /\ tried' = tried \cup {attempt(c)}
  /\ widx' = widx + 1
  /\ cnt' = 0
  /\ UNCHANGED <<tx, pc, wifkeys, privkeys, digest, outcome, before, nsign, rec,
                 chain, call, services>>

\* line 578-579: what recoverPubkeyParameter raises, or TypeError from
\* i += 4 when it returns None; "" when it returns a number
raisedByParameter(param) ==
  IF param.kind = "raise" THEN param.error
  ELSE IF param.kind = "None" THEN "TypeError"
  ELSE ""

\* the exception a pass of the loop with candidate c raises, "" when it
\* raises none
raisedBy(c) ==
  IF unlucky(c) THEN "RuntimeError"
  ELSE IF ~isCanonical(c) THEN ""
  ELSE raisedByParameter(nextParameter(c))

\* a pass that raises: sign() is left, self.data is as it was
sign_raise ==
  /\ inLoop
  /\ \E e \in {raisedBy(nextCandidate)} : e # "" /\ outcome' = e
  /\ pc' = "idle"
  /\ UNCHANGED <<tx, wifkeys, privkeys, digest, sigs, widx, cnt, before,
                 made, nsign, rec, chain, call, tried, services>>

\* lines 590-591: self.data["signatures"] = Array(sigs); return self
sign_return ==
  /\ pc = "sign"
  /\ widx > Len(privkeys)
  /\ tx' = [tx EXCEPT !.signatures = sigs]
  /\ pc' = "idle"
  /\ outcome' = "ok"
  /\ UNCHANGED <<wifkeys, privkeys, digest, sigs, widx, cnt, before, made,
                 nsign, rec, chain, call, tried, services>>

Next ==
  \/ \E keys \in KeyLists : sign(keys, "STEEM")
  \/ sign_retry
  \/ sign_emit
  \/ sign_raise
  \/ sign_return

Spec == Init /\ [][Next]_vars

(***************************************************************************)
(* The recovery methods called directly                                    *)
(***************************************************************************)
\* attempts whose signatures are handed to the recovery methods
MaxRecoverCnt == 3

\* the signatures sign() can make over a digest, canonical or not
madeOver(d) ==
  {candidate(PrivateKey(w), d, c).signature : w \in Wifs, c \in 1..MaxRecoverCnt}

\* a signature, and the same with s or r changed or a byte missing
altered(signature) ==
  {signature,
   [signature EXCEPT ![2 * baselen] = (@ + 1) % 256],
   [signature EXCEPT ![baselen] = (@ + 1) % 256],
   SubSeq(signature, 1, 2 * baselen - 1)}

RecoverSignatures(d) == UNION {altered(signature) : signature \in madeOver(d)}

\* tx.recover_public_key(digest, signature, i)
recover_public_key_call(signature, i) ==
  /\ pc = "idle"
  /\ ~rec.called
  /\ rec' = [op |-> "recover_public_key", digest |-> deriveDigest(tx),
             signature |-> signature, i |-> i, pubkey |-> INFINITY,
             called |-> TRUE,
             result |-> recover_public_key(deriveDigest(tx), signature, i)]
  /\ UNCHANGED <<tx, pc, wifkeys, privkeys, digest, sigs, widx, cnt, outcome,
                 before, made, nsign, chain, call, tried, services>>

\* tx.recoverPubkeyParameter(digest, signature, pubkey)
recoverPubkeyParameter_call(signature, pubkey) ==
  /\ pc = "idle"
  /\ ~rec.called
  /\ rec' = [op |-> "recoverPubkeyParameter", digest |-> deriveDigest(tx),
             signature |-> signature, i |-> 0, pubkey |-> pubkey,
             called |-> TRUE,
             result |-> recoverPubkeyParameter(deriveDigest(tx), signature, pubkey)]
  /\ UNCHANGED <<tx, pc, wifkeys, privkeys, digest, sigs, widx, cnt, outcome,
                 before, made, nsign, chain, call, tried, services>>

NextRecover ==
  \/ \E signature \in RecoverSignatures(deriveDigest(tx)), i \in 0..3 :
       recover_public_key_call(signature, i)
  \/ \E signature \in RecoverSignatures(deriveDigest(tx)), w \in Wifs :
       recoverPubkeyParameter_call(signature, get_verifying_key(PrivateKey(w)))

SpecRecover == Init /\ [][NextRecover]_vars

(***************************************************************************)
(* verify(pubkeys), as the specification describes it: the method is       *)
(* inherited from a base class whose file is not among the sources         *)
(***************************************************************************)
\* the wire bytes of the unsigned body as the specification gives them:
\* the four header fields and the empty extensions set, one byte 0x00
unsignedBody(data) ==
  Uint16(data.ref_block_num) \o Uint32(data.ref_block_prefix)
    \o PointInTime(data.expiration)
    \o Array([j \in 1..Len(data.operations) |-> Operation(data.operations[j])])
    \o <<0>>

\* public key lists handed to verify()
MaxPubkeys == 2

RetOk == [kind |-> "ok", Q |-> INFINITY, i |-> -1, error |-> ""]

\* the digest verify() recomputes: chain id and unsigned body
verify_digest_fresh(data) == sha256(unhexlify(chain_id) \o unsignedBody(data))

\* the signer of one attached signature: the leading byte less 4 + 27 is
\* the recovery parameter, the rest is r and s
recover_signer(d, sig) ==
  IF Len(sig) # 1 + 2 * baselen THEN Raised("InvalidSignatureError")
  ELSE recover_public_key(d, SubSeq(sig, 2, Len(sig)), sig[1] - 4 - 27)

\* every supplied key must be among the recovered ones; a signature that
\* recovers no key fails the call
verify_found(pubkeys, found) ==
  IF \E f \in found : f.kind # "key" THEN Raised("InvalidSignatureError")
  ELSE IF \A j \in 1..Len(pubkeys) : pubkeys[j] \in {f.Q : f \in found}
       THEN RetOk
       ELSE Raised("MissingSignature")

verify(data, pubkeys) ==
  verify_found(pubkeys, {recover_signer(verify_digest_fresh(data), sig) :
                           sig \in Range(data.signatures)})

Pubkeys == {get_verifying_key(PrivateKey(w)) : w \in Wifs}

\* tx.verify(pubkeys)
verify_call(pubkeys) ==
  /\ pc = "idle"
  /\ ~call.called
  /\ call' = [op |-> "verify", called |-> TRUE, pubkeys |-> pubkeys,
              result |-> verify(tx, pubkeys)]
  /\ UNCHANGED <<tx, pc, wifkeys, privkeys, digest, sigs, widx, cnt, outcome,
                 before, made, nsign, rec, chain, tried, services>>

\* longest key list handed to a sign() that is followed by verify()
MaxVerifyKeys == 1

\* sign() calls with either chain argument, then one verify()
NextVerify ==
  \/ ~call.called
       /\ \E keys \in SeqsUpTo(Wifs, MaxVerifyKeys), c \in Chains : sign(keys, c)
  \/ ~call.called /\ sign_retry
  \/ ~call.called /\ sign_emit
  \/ ~call.called /\ sign_raise
  \/ ~call.called /\ sign_return
  \/ \E pubkeys \in SeqsUpTo(Pubkeys, MaxPubkeys) : verify_call(pubkeys)

SpecVerify == Init /\ [][NextVerify]_vars

(***************************************************************************)
(* The constructors and serializers called directly                        *)
(***************************************************************************)
\* longest operations list, and longest list of encoded elements
MaxOps == 3
MaxElems == 3

OpLists == SeqsUpTo({VoteA, VoteB}, MaxOps)

KwargsCodec ==
  [ref_block_num    : {34294},
   ref_block_prefix : {[hi |-> 56564, lo |-> 43909]},
   expiration       : {<<2016, 4, 6, 8, 29, 27>>},
   operations       : OpLists,
   signatures       : {<<>>}]

\* encoded elements handed to Array and Set: one empty, one repeated below
Elems == {<<>>, <<7>>, <<1, 2>>}

UnchangedBySerializers ==
  UNCHANGED <<pc, wifkeys, privkeys, digest, sigs, widx, cnt, outcome,
              before, made, nsign, rec, chain, tried, services>>

\* tx = Signed_Transaction(**kwargs), then bytes(tx) and the digest
Signed_Transaction_call(kwargs) ==
  /\ pc = "idle"
  /\ ~call.called
  /\ tx' = Signed_Transaction(kwargs)
  /\ call' = [op |-> "Signed_Transaction", called |-> TRUE, kwargs |-> kwargs,
              bytes |-> bytes(Signed_Transaction(kwargs)),
              digest |-> deriveDigest(Signed_Transaction(kwargs))]
  /\ UnchangedBySerializers

\* bytes(Array(d)) and bytes(Set(d))
Array_call(d) ==
  /\ pc = "idle"
  /\ ~call.called
  /\ call' = [op |-> "Array", called |-> TRUE, d |-> d,
              bytes |-> Array(d), setbytes |-> Set(d)]
  /\ UNCHANGED tx
  /\ UnchangedBySerializers

(***************************************************************************)
(* steembase/operations.py: Permission                                     *)
(***************************************************************************)
\* str < str and the order sorted() uses for its keys: code point by code
\* point, a proper prefix first
RECURSIVE less(_, _)
less(a, b) ==
  IF b = <<>> THEN FALSE
  ELSE IF a = <<>> THEN TRUE
  ELSE IF Head(a) # Head(b) THEN Head(a) < Head(b)
  ELSE less(Tail(a), Tail(b))

\* sorted(pairs, key=lambda x: x[1]) over <<element, key>> pairs: stable,
\* an element goes behind the elements whose key is not greater
RECURSIVE insert(_, _)
insert(done, x) ==
  IF done = <<>> THEN <<x>>
  ELSE IF less(x[2], done[Len(done)][2])
       THEN Append(insert(SubSeq(done, 1, Len(done) - 1), x), done[Len(done)])
       ELSE Append(done, x)

RECURSIVE sorted(_)
sorted(pairs) ==
  IF pairs = <<>> THEN <<>>
  ELSE insert(sorted(SubSeq(pairs, 1, Len(pairs) - 1)), pairs[Len(pairs)])

\* hexlify as ASCII codes of lower-case hex digits
hexdigit(v) == IF v < 10 THEN 48 + v ELSE 87 + v
hexlify(bs) ==
  [j \in 1..(2 * Len(bs)) |->
     IF j % 2 = 1 THEN hexdigit(bs[(j + 1) \div 2] \div 16)
     ELSE hexdigit(bs[j \div 2] % 16)]

\* PublicKey(pk, prefix): the compressed key a key string stands for, here
\* the leading 1 + baselen bytes of the keys of test_account_update
PublicKey(pk) ==
  CASE pk = "STM6KChDK2sns9" -> <<2, 187, 207>>
    [] pk = "STM7sw22HqsXbz" -> <<3, 137, 210>>
    [] pk = "STM728uLvStTeA" -> <<3, 24, 193>>

\* repr(PublicKey(pk, prefix)) : the compressed key in hex
repr(pk) == hexlify(PublicKey(pk))

\* Map.__bytes__ : the count and each pair's key and value bytes
Map(pairs) ==
  varint(Len(pairs)) \o Flatten([j \in 1..Len(pairs) |-> pairs[j][1] \o pairs[j][2]])

\* the sorted lists of Permission.__init__, lines 67-76
sorted_key_auths(key_auths) ==
  LET by == sorted([j \in 1..Len(key_auths) |-> <<key_auths[j], repr(key_auths[j][1])>>])
  IN [j \in 1..Len(by) |-> by[j][1]]

sorted_account_auths(account_auths) ==
  LET by == sorted([j \in 1..Len(account_auths) |-> <<account_auths[j], account_auths[j][1]>>])
  IN [j \in 1..Len(by) |-> by[j][1]]

\* bytes(Permission(weight_threshold=.., account_auths=.., key_auths=..))
Permission(kwargs) ==
  Uint32(Wide(kwargs.weight_threshold))
    \o Map([j \in 1..Len(kwargs.account_auths) |->
              <<String(sorted_account_auths(kwargs.account_auths)[j][1]),
                Uint16(sorted_account_auths(kwargs.account_auths)[j][2])>>])
    \o Map([j \in 1..Len(kwargs.key_auths) |->
              <<PublicKey(sorted_key_auths(kwargs.key_auths)[j][1]),
                Uint16(sorted_key_auths(kwargs.key_auths)[j][2])>>])

\* longest key_auths and account_auths list
MaxAuths == 2

xeroc == <<120, 101, 114, 111, 99>>
fabian == <<102, 97, 98, 105, 97, 110>>

KeyAuths ==
  SeqsUpTo({<<pk, w>> : pk \in {"STM6KChDK2sns9", "STM7sw22HqsXbz", "STM728uLvStTeA"},
                        w \in {1, 2}}, MaxAuths)
AccountAuths == SeqsUpTo({<<a, w>> : a \in {xeroc, fabian}, w \in {1, 2}}, MaxAuths)

PermissionKwargs ==
  [weight_threshold : {1}, account_auths : AccountAuths, key_auths : KeyAuths]

Permission_call(kwargs) ==
  /\ pc = "idle"
  /\ ~call.called
  /\ call' = [op |-> "Permission", called |-> TRUE, kwargs |-> kwargs,
              bytes |-> Permission(kwargs)]
  /\ UNCHANGED tx
  /\ UnchangedBySerializers

(***************************************************************************)
(* steembase/operations.py: Amount.  Strings are sequences of ASCII codes. *)
(***************************************************************************)
STEEM == <<83, 84, 69, 69, 77>>
VESTS == <<86, 69, 83, 84, 83>>
SBD == <<83, 66, 68>>
GOLOS == <<71, 79, 76, 79, 83>>
GESTS == <<71, 69, 83, 84, 83>>
GBG == <<71, 66, 71>>

\* asset_precision, lines 20-27; -1 for a symbol that is not a key
asset_precision(asset) ==
  CASE asset = STEEM -> 3
    [] asset = VESTS -> 6
    [] asset = SBD -> 3
    [] asset = GOLOS -> 3
    [] asset = GESTS -> 6
    [] asset = GBG -> 3
    [] OTHER -> -1

\* str.strip(): white space removed at both ends
RECURSIVE strip(_)
strip(d) ==
  IF d = <<>> THEN d
  ELSE IF Head(d) = 32 THEN strip(Tail(d))
  ELSE IF d[Len(d)] = 32 THEN strip(SubSeq(d, 1, Len(d) - 1))
  ELSE d

\* str.split(" "): the parts between single spaces
RECURSIVE split(_)
split(d) ==
  IF d = <<>> THEN <<<<>>>>
  ELSE LET rest == split(Tail(d))
       IN IF Head(d) = 32 THEN <<<<>>>> \o rest
          ELSE <<<<Head(d)>> \o Head(rest)>> \o Tail(rest)

isDigits(a) == a # <<>> /\ \A j \in 1..Len(a) : a[j] \in 48..57

RECURSIVE digitsValue(_)
digitsValue(a) ==
  IF a = <<>> THEN 0
  ELSE 10 * digitsValue(SubSeq(a, 1, Len(a) - 1)) + (a[Len(a)] - 48)

Pow10(n) == CASE n = 0 -> 1 [] n = 1 -> 10 [] n = 2 -> 100 [] n = 3 -> 1000
              [] n = 4 -> 10000 [] n = 5 -> 100000 [] n = 6 -> 1000000
              [] n = 7 -> 10000000

\* float(a) for a decimal numeral [-]digits[.digits]: the sign, the whole
\* part, the fraction digits as a number and their count; ok is FALSE
\* where float() raises ValueError
unsignedFloat(a, neg) ==
  LET dots == {j \in 1..Len(a) : a[j] = 46}
      dot  == IF dots = {} THEN Len(a) + 1 ELSE CHOOSE j \in dots : TRUE
      w    == SubSeq(a, 1, dot - 1)
      f    == SubSeq(a, dot + 1, Len(a))
  IN IF Cardinality(dots) > 1 \/ ~isDigits(w) \/ (f # <<>> /\ ~isDigits(f))
     THEN [ok |-> FALSE, neg |-> neg, whole |-> 0, frac |-> 0, places |-> 0]
     ELSE [ok |-> TRUE, neg |-> neg, whole |-> digitsValue(w),
           frac |-> digitsValue(f), places |-> Len(f)]

float(a) ==
  IF a # <<>> /\ Head(a) = 45 THEN unsignedFloat(Tail(a), TRUE)
  ELSE unsignedFloat(a, FALSE)

\* Amount.__init__, lines 153-160
AmountOf(parts) ==
  IF Len(parts) # 2 THEN Raised("ValueError")
  ELSE IF ~float(parts[1]).ok THEN Raised("ValueError")
  ELSE IF asset_precision(parts[2]) = -1 THEN Raised("Exception")
  ELSE [kind |-> "Amount", amount |-> float(parts[1]), asset |-> parts[2],
        precision |-> asset_precision(parts[2])]

Amount(d) == AmountOf(split(strip(d)))

\* round(): the nearest integer of q + r / D, a tie to the even one
roundHalfEven(q, r, D) ==
  IF 2 * r > D THEN q + 1
  ELSE IF 2 * r < D THEN q
  ELSE IF q % 2 = 0 THEN q ELSE q + 1

\* round(float(self.amount) * 10 ** self.precision), line 165
scaled(x, precision) ==
  LET mag == IF x.places <= precision
             THEN x.whole * Pow10(precision) + x.frac * Pow10(precision - x.places)
             ELSE x.whole * Pow10(precision)
                    + roundHalfEven(x.frac \div Pow10(x.places - precision),
                                    x.frac % Pow10(x.places - precision),
                                    Pow10(x.places - precision))
  IN IF x.neg THEN -mag ELSE mag

\* the amount packed on four bytes
pack_i(v) ==
  IF v >= 0 THEN Uint32(Wide(v))
  ELSE [j \in 1..4 |-> 255 - Uint32(Wide(-v - 1))[j]]

\* struct.pack("<q", v) : little-endian two's complement on 8 bytes
pack_q(v) ==
  IF v >= 0 THEN Uint32(Wide(v)) \o <<0, 0, 0, 0>>
  ELSE [j \in 1..4 |-> 255 - Uint32(Wide(-v - 1))[j]] \o <<255, 255, 255, 255>>

\* Amount.__bytes__, lines 162-170
Amount_bytes(a) ==
  pack_q(scaled(a.amount, a.precision))
    \o <<a.precision>>
    \o a.asset \o [j \in 1..(7 - Len(a.asset)) |-> 0]

\* the numerals and symbols of the amount strings
Wholes == {<<0>>, <<1>>, <<1, 1, 1>>, <<2, 0, 0, 0>>}
Fracs == {<<>>, <<1>>, <<1, 1, 0>>, <<0, 0, 1>>, <<0, 0, 0, 4>>, <<0, 0, 0, 6>>,
          <<9, 9, 9, 9, 9, 9>>, <<0, 0, 0, 0, 0, 0, 4>>}
Assets == {STEEM, VESTS, SBD, GOLOS, GESTS, GBG, <<66, 84, 83>>}

\* the string "<numeral> <symbol>" of a sign, whole digits, fraction digits
\* and a symbol
amountString(neg, whole, frac, asset) ==
  (IF neg THEN <<45>> ELSE <<>>)
    \o [j \in 1..Len(whole) |-> 48 + whole[j]]
    \o (IF frac = <<>> THEN <<>> ELSE <<46>> \o [j \in 1..Len(frac) |-> 48 + frac[j]])
    \o <<32>> \o asset

\* bytes(Amount(d))
Amount_call(neg, whole, frac, asset) ==
  /\ pc = "idle"
  /\ ~call.called
  /\ \E a \in {Amount(amountString(neg, whole, frac, asset))} :
       call' = [op |-> "Amount", called |-> TRUE,
                neg |-> neg, whole |-> whole, frac |-> frac, asset |-> asset,
                d |-> amountString(neg, whole, frac, asset),
                result |-> IF a.kind = "Amount"
                           THEN [kind |-> "bytes", bytes |-> Amount_bytes(a)]
                           ELSE [kind |-> "raise", error |-> a.error]]
  /\ UNCHANGED tx
  /\ UnchangedBySerializers

(***************************************************************************)
(* steem/amount.py: Amount.  The float amount is held in millionths.       *)
(***************************************************************************)
\* Amount.__init__, lines 2-4
SteemAmountOf(parts) ==
  IF Len(parts) # 2 \/ ~float(parts[1]).ok THEN Raised("ValueError")
  ELSE [kind |-> "Amount", amount |-> scaled(float(parts[1]), 6), asset |-> parts[2]]

SteemAmount(string) == SteemAmountOf(split(string))

\* '%d' % n for n >= 0
RECURSIVE decimal(_)
decimal(n) == IF n < 10 THEN <<48 + n>> ELSE Append(decimal(n \div 10), 48 + (n % 10))

\* the last prec digits of n, zeros in front
RECURSIVE places(_, _)
places(n, prec) ==
  IF prec = 0 THEN <<>> ELSE Append(places(n \div 10, prec - 1), 48 + (n % 10))

\* "{:.{prec}f}".format(amount) for an amount in millionths
fixed(mag, prec) ==
  decimal(mag \div Pow10(prec)) \o <<46>> \o places(mag % Pow10(prec), prec)

\* Amount.__str__, lines 6-15
str(a) ==
  LET prec == IF a.asset = SBD THEN 3
              ELSE IF a.asset = STEEM THEN 3
              ELSE IF a.asset = VESTS THEN 6
              ELSE 6
      mag  == IF a.amount < 0 THEN -a.amount ELSE a.amount
      rnd  == roundHalfEven(mag \div Pow10(6 - prec), mag % Pow10(6 - prec),
                            Pow10(6 - prec))
  IN (IF a.amount < 0 THEN <<45>> ELSE <<>>) \o fixed(rnd, prec) \o <<32>> \o a.asset

\* Amount.__add__, lines 23-29, and __sub__, lines 31-37, for an Amount
\* other: a copy made from str(self), changed by other.amount
add(self, other) ==
  [SteemAmount(str(self)) EXCEPT !.amount = @ + other.amount]

sub(self, other) ==
  [SteemAmount(str(self)) EXCEPT !.amount = @ - other.amount]

\* Amount.__iadd__, lines 64-69, and __isub__, lines 71-76: self changed
iadd(self, other) == [self EXCEPT !.amount = @ + other.amount]

isub(self, other) == [self EXCEPT !.amount = @ - other.amount]

SteemAmounts ==
  {SteemAmount(amountString(FALSE, whole, frac, asset)) :
     whole \in {<<0>>, <<2>>, <<9>>}, frac \in {<<>>, <<5>>, <<0, 0, 0, 6>>},
     asset \in {SBD, STEEM, VESTS}}

\* a + b, a - b, a += b, a -= b
arithmetic_call(operator, a, b) ==
  /\ pc = "idle"
  /\ ~call.called
  /\ call' = [op |-> operator, called |-> TRUE, self |-> a, other |-> b,
              result |-> CASE operator = "__add__" -> add(a, b)
                           [] operator = "__sub__" -> sub(a, b)
                           [] operator = "__iadd__" -> iadd(a, b)
                           [] operator = "__isub__" -> isub(a, b)]
  /\ UNCHANGED tx
  /\ UnchangedBySerializers

(***************************************************************************)
(* The operation ids                                                       *)
(***************************************************************************)
\* the names handed to Operation: the keys of the table and the operation
\* of test_set_route
OperationNames == operationNames \cup {"set_withdraw_vesting_route"}

\* the largest id handed to getOperationNameForId
MaxOpId == 25

\* Operation.__init__, lines 356-358, and the Id of __bytes__, line 361,
\* then the name of the id as __str__ takes it, line 364
Operation_call(name) ==
  /\ pc = "idle"
  /\ ~call.called
  /\ call' = [op |-> "Operation", called |-> TRUE, name |-> name,
              result |-> IF operations(name) = -1 THEN Raised("KeyError")
                         ELSE [kind |-> "ok", opId |-> operations(name),
                               tag |-> Id(operations(name)),
                               back |-> getOperationNameForId(operations(name))]]
  /\ UNCHANGED tx
  /\ UnchangedBySerializers

\* getOperationNameForId(i)
getOperationNameForId_call(i) ==
  /\ pc = "idle"
  /\ ~call.called
  /\ call' = [op |-> "getOperationNameForId", called |-> TRUE, i |-> i,
              result |-> getOperationNameForId(i)]
  /\ UNCHANGED tx
  /\ UnchangedBySerializers

(***************************************************************************)
(* steembase/operations.py: Custom_json                                    *)
(***************************************************************************)
\* Custom_json.__init__, lines 467-490: js is bound only for a json that is
\* given and not empty; len(kwargs["id"]) counts the characters of the str
Custom_json(kwargs) ==
  IF Len(kwargs.id) > 32 THEN Raised("Exception")
  ELSE IF kwargs.json = <<>> THEN Raised("UnboundLocalError")
  ELSE [kind |-> "ok",
        required_auths |-> Array([j \in 1..Len(kwargs.required_auths) |->
                                    String(kwargs.required_auths[j])]),
        required_posting_auths |->
          Array([j \in 1..Len(kwargs.required_posting_auths) |->
                   String(kwargs.required_posting_auths[j])]),
        id |-> kwargs.id,
        json |-> kwargs.json]

\* longest id handed to Custom_json, in characters
MaxIdLen == 34

\* ids of one repeated character: "a", e acute (2 bytes), the euro sign (3)
Ids == {[j \in 1..n |-> c] : n \in 0..MaxIdLen, c \in {97, 233, 8364}}

Custom_jsonKwargs ==
  [required_auths : {<<>>}, required_posting_auths : {<<xeroc>>}, id : Ids,
   json : {<<>>, <<123, 125>>}]

Custom_json_call(kwargs) ==
  /\ pc = "idle"
  /\ ~call.called
  /\ call' = [op |-> "Custom_json", called |-> TRUE, kwargs |-> kwargs,
              result |-> Custom_json(kwargs)]
  /\ UNCHANGED tx
  /\ UnchangedBySerializers

(***************************************************************************)
(* json_metadata: transactions.py Comment, operations.py Comment,          *)
(* Account_create and Account_update                                       *)
(***************************************************************************)
\* the values a caller hands over as json_metadata: no key at all, a str,
\* a dict of str to str (a sequence of <<key, value>>), a list of str
pyAbsent == [kind |-> "absent"]
pyStr(text) == [kind |-> "str", text |-> text]
pyDict(items) == [kind |-> "dict", items |-> items]
pyList(items) == [kind |-> "list", items |-> items]

\* bool(v) of a str, dict or list
bool(v) == IF v.kind = "str" THEN v.text # <<>> ELSE v.items # <<>>

\* ", ".join(parts)
RECURSIVE join(_)
join(parts) ==
  IF parts = <<>> THEN <<>>
  ELSE IF Len(parts) = 1 THEN parts[1]
  ELSE parts[1] \o <<44, 32>> \o join(Tail(parts))

\* a str of plain ASCII between double quotes
quoted(text) == <<34>> \o text \o <<34>>

\* json.dumps of a dict of str to str or of a list of str
dumps(v) ==
  IF v.kind = "dict"
  THEN <<123>> \o join([j \in 1..Len(v.items) |->
                          quoted(v.items[j][1]) \o <<58, 32>> \o quoted(v.items[j][2])])
         \o <<125>>
  ELSE <<91>> \o join([j \in 1..Len(v.items) |-> quoted(v.items[j])]) \o <<93>>

\* bytes(String(v)): bytes(self.data, 'utf-8') takes a str only
String_bytes(v) ==
  IF v.kind = "str" THEN [kind |-> "ok", bytes |-> String(v.text)]
  ELSE Raised("TypeError")

\* the six other fields of the Comment of test_Comment
foobarb == <<102, 111, 111, 98, 97, 114, 98>>
foobare == <<102, 111, 111, 98, 97, 114, 101>>
foobarf == <<102, 111, 111, 98, 97, 114, 102>>
Comment_head ==
  String(foobara) \o String(foobarb) \o String(foobarc) \o String(foobard)
    \o String(foobare) \o String(foobarf)

\* an operation made of its leading fields and its json_metadata field
withMetadata(head, field) ==
  IF field.kind = "raise" THEN field
  ELSE [kind |-> "ok", bytes |-> head \o field.bytes, json_metadata |-> field.bytes]

\* steembase/transactions.py Comment: kwargs["json_metadata"] goes to String
\* as it is
Comment(kwargs) ==
  IF kwargs.json_metadata.kind = "absent" THEN Raised("KeyError")
  ELSE withMetadata(Comment_head, String_bytes(kwargs.json_metadata))

\* steembase/operations.py Comment: meta, lines 133-139
Comment_meta(kwargs) ==
  IF kwargs.json_metadata.kind # "absent" /\ bool(kwargs.json_metadata)
  THEN IF kwargs.json_metadata.kind \in {"dict", "list"}
       THEN pyStr(dumps(kwargs.json_metadata))
       ELSE kwargs.json_metadata
  ELSE pyStr(<<>>)

operations_Comment(kwargs) == withMetadata(Comment_head, String_bytes(Comment_meta(kwargs)))

\* Account_create: meta, lines 222-227, a dict only
Account_create_meta(kwargs) ==
  IF kwargs.json_metadata.kind # "absent" /\ bool(kwargs.json_metadata)
  THEN IF kwargs.json_metadata.kind = "dict"
       THEN pyStr(dumps(kwargs.json_metadata))
       ELSE kwargs.json_metadata
  ELSE pyStr(<<>>)

\* Account_update: meta, lines 248-253, a dict only
Account_update_meta(kwargs) ==
  IF kwargs.json_metadata.kind # "absent" /\ bool(kwargs.json_metadata)
  THEN IF kwargs.json_metadata.kind = "dict"
       THEN pyStr(dumps(kwargs.json_metadata))
       ELSE kwargs.json_metadata
  ELSE pyStr(<<>>)

foo == <<102, 111, 111>>
bar == <<98, 97, 114>>

\* the json_metadata values handed to the four classes
Metas ==
  {pyAbsent, pyStr(<<>>), pyStr(<<123, 125>>), pyStr(dumps(pyDict(<<<<foo, bar>>>>))),
   pyDict(<<>>), pyDict(<<<<foo, bar>>>>), pyDict(<<<<foo, bar>>, <<bar, foo>>>>),
   pyList(<<>>), pyList(<<foo>>), pyList(<<foo, bar>>)}

Klasses == {"transactions.Comment", "operations.Comment", "Account_create", "Account_update"}

\* bytes(klass(**kwargs)), of which the json_metadata field is kept apart
json_metadata_call(klass, kwargs) ==
  /\ pc = "idle"
  /\ ~call.called
  /\ call' = [op |-> "json_metadata", called |-> TRUE, klass |-> klass,
              kwargs |-> kwargs,
              result |->
                CASE klass = "transactions.Comment" -> Comment(kwargs)
                  [] klass = "operations.Comment" -> operations_Comment(kwargs)
                  [] klass = "Account_create" ->
                       withMetadata(<<>>, String_bytes(Account_create_meta(kwargs)))
                  [] OTHER ->
                       withMetadata(<<>>, String_bytes(Account_update_meta(kwargs)))]
  /\ UNCHANGED tx
  /\ UnchangedBySerializers

(***************************************************************************)
(* varintdecode                                                            *)
(***************************************************************************)
\* the elements a for loop takes from a bytes object (ints) and from a str
\* (strs of length 1)
iter(data) ==
  [j \in 1..Len(data.items) |->
     [kind |-> IF data.kind = "bytes" THEN "int" ELSE "str", code |-> data.items[j]]]

\* ord(c): the code point of a str of length 1, TypeError for an int
ord(c) == IF c.kind = "str" THEN RetInt(c.code) ELSE Raised("TypeError")

RECURSIVE Pow2(_)
Pow2(e) == IF e = 0 THEN 1 ELSE 2 * Pow2(e - 1)

\* the loop of varintdecode, lines 100-105, from element j on
RECURSIVE varintdecode_from(_, _, _, _)
varintdecode_from(elems, j, shift, result) ==
  IF j > Len(elems) THEN RetInt(result)
  ELSE IF ord(elems[j]).kind = "raise" THEN ord(elems[j])
  ELSE IF ord(elems[j]).i < 128
       THEN RetInt(result + (ord(elems[j]).i % 128) * Pow2(shift))
  ELSE varintdecode_from(elems, j + 1, shift + 7,
                         result + (ord(elems[j]).i % 128) * Pow2(shift))

\* varintdecode(data)
varintdecode(data) == varintdecode_from(iter(data), 1, 0, 0)

\* the largest number handed to varint
MaxVarint == 300

\* varintdecode(varint(n)), and varintdecode of the str with the code points
\* of varint(n)
varintdecode_call(n, kind) ==
  /\ pc = "idle"
  /\ ~call.called
  /\ call' = [op |-> "varintdecode", called |-> TRUE, n |-> n, kind |-> kind,
              data |-> varint(n),
              result |-> varintdecode([kind |-> kind, items |-> varint(n)])]
  /\ UNCHANGED tx
  /\ UnchangedBySerializers

(***************************************************************************)
(* String                                                                  *)
(***************************************************************************)
\* longest str of mixed characters handed to String
MaxStrLen == 3

\* strs of "a", e acute (2 bytes in UTF-8) and the euro sign (3 bytes)
Strs == SeqsUpTo({97, 233, 8364}, MaxStrLen)

\* bytes(String(d))
String_call(d) ==
  /\ pc = "idle"
  /\ ~call.called
  /\ call' = [op |-> "String", called |-> TRUE, d |-> d, result |-> String(d)]
  /\ UNCHANGED tx
  /\ UnchangedBySerializers

(***************************************************************************)
(* Optional, Account_update and the JSON form of an object                 *)
(***************************************************************************)
\* what an Optional holds: None, or an instance whose bytes() is b
pyNone == [kind |-> "None"]
pyObject(b) == [kind |-> "object", bytes |-> b]

\* bytes(d): None is not convertible to bytes
bytesOf(d) ==
  IF d.kind = "None" THEN Raised("TypeError") ELSE [kind |-> "ok", bytes |-> d.bytes]

\* Optional.__bytes__, line 301:
\* bytes(Bool(1)) + bytes(self.data) if bytes(self.data) else bytes(Bool(0))
Optional(d) ==
  IF bytesOf(d).kind = "raise" THEN bytesOf(d)
  ELSE IF bytesOf(d).bytes # <<>> THEN [kind |-> "ok", bytes |-> <<1>> \o bytesOf(d).bytes]
  ELSE [kind |-> "ok", bytes |-> <<0>>]

\* Optional.isempty, line 307: not bool(bytes(self.data))
isempty(d) ==
  IF bytesOf(d).kind = "raise" THEN bytesOf(d)
  ELSE [kind |-> "ok", value |-> bytesOf(d).bytes = <<>>]

\* a field of an object: its name, whether it is an Optional, and what it
\* holds (for an Optional) or is (for any other type)
Field(name, optional, d) == [name |-> name, optional |-> optional, data |-> d]

\* SteemObject.__bytes__, lines 380-389, from field j on
RECURSIVE SteemObject_bytes(_, _)
SteemObject_bytes(fields, j) ==
  IF j > Len(fields) THEN [kind |-> "ok", bytes |-> <<>>]
  ELSE IF fields[j].optional /\ Optional(fields[j].data).kind = "raise"
       THEN Optional(fields[j].data)
  ELSE IF SteemObject_bytes(fields, j + 1).kind = "raise"
       THEN SteemObject_bytes(fields, j + 1)
  ELSE [kind |-> "ok",
        bytes |-> (IF fields[j].optional THEN Optional(fields[j].data).bytes
                   ELSE fields[j].data.bytes)
                    \o SteemObject_bytes(fields, j + 1).bytes]

\* SteemObject.__json__, lines 391-402, from field j on: the names of the
\* fields the JSON form holds
RECURSIVE SteemObject_json(_, _)
SteemObject_json(fields, j) ==
  IF j > Len(fields) THEN [kind |-> "ok", names |-> <<>>]
  ELSE IF fields[j].optional /\ isempty(fields[j].data).kind = "raise"
       THEN isempty(fields[j].data)
  ELSE IF SteemObject_json(fields, j + 1).kind = "raise"
       THEN SteemObject_json(fields, j + 1)
  ELSE [kind |-> "ok",
        names |-> (IF fields[j].optional /\ isempty(fields[j].data).value
                   THEN <<>> ELSE <<fields[j].name>>)
                    \o SteemObject_json(fields, j + 1).names]

\* owner, active and posting of Account_update.__init__, lines 255-257
permissionOrNone(value) ==
  IF value.kind = "absent" THEN pyNone ELSE pyObject(Permission(value.kwargs))

streemian == <<115, 116, 114, 101, 101, 109, 105, 97, 110>>

\* the OrderedDict of Account_update.__init__, lines 259-266
Account_update(kwargs) ==
  <<Field("account", FALSE, pyObject(String(streemian))),
    Field("owner", TRUE, permissionOrNone(kwargs.owner)),
    Field("active", TRUE, permissionOrNone(kwargs.active)),
    Field("posting", TRUE, permissionOrNone(kwargs.posting)),
    Field("memo_key", FALSE, pyObject(PublicKey("STM728uLvStTeA"))),
    Field("json_metadata", FALSE,
          pyObject(String(Account_update_meta([json_metadata |-> pyStr(<<>>)]).text)))>>

\* the permissions of test_account_update, or none
PermissionValues ==
  {pyAbsent,
   [kind |-> "dict",
    kwargs |-> [weight_threshold |-> 1, account_auths |-> <<>>,
                key_auths |-> <<<<"STM7sw22HqsXbz", 1>>, <<"STM6KChDK2sns9", 1>>>>]],
   [kind |-> "dict",
    kwargs |-> [weight_threshold |-> 1,
                account_auths |-> <<<<xeroc, 1>>, <<fabian, 1>>>>,
                key_auths |-> <<>>]]}

\* what is handed to Optional directly: None, a Void, a String, a Permission
OptionalValues ==
  {pyNone, pyObject(<<>>), pyObject(String(<<>>)), pyObject(String(foobara))}

\* bytes(Optional(d)) and Optional(d).isempty()
Optional_call(d) ==
  /\ pc = "idle"
  /\ ~call.called
  /\ call' = [op |-> "Optional", called |-> TRUE, d |-> d,
              result |-> Optional(d), empty |-> isempty(d)]
  /\ UNCHANGED tx
  /\ UnchangedBySerializers

\* bytes(Account_update(**kwargs)) and its JSON form
Account_update_call(kwargs) ==
  /\ pc = "idle"
  /\ ~call.called
  /\ call' = [op |-> "Account_update", called |-> TRUE, kwargs |-> kwargs,
              fields |-> Account_update(kwargs),
              result |-> SteemObject_bytes(Account_update(kwargs), 1),
              json |-> SteemObject_json(Account_update(kwargs), 1)]
  /\ UNCHANGED tx
  /\ UnchangedBySerializers

(***************************************************************************)
(* What the constructors do to the field map they are handed               *)
(***************************************************************************)
\* kwargs at the end of Permission.__init__, lines 68-77: the two lists are
\* replaced by sorted ones
Permission_kwargs(kwargs) ==
  [kwargs EXCEPT !.key_auths = sorted_key_auths(@),
                 !.account_auths = sorted_account_auths(@)]

\* kwargs at the end of Transfer.__init__, lines 276-277
Transfer_kwargs(kwargs) ==
  IF kwargs.memo.kind = "absent" THEN [kwargs EXCEPT !.memo = pyStr(<<>>)] ELSE kwargs

\* kwargs at the end of Witness_update.__init__, lines 392-393
Witness_update_kwargs(kwargs) ==
  IF kwargs.block_signing_key = ""
  THEN [kwargs EXCEPT !.block_signing_key = "STM1111111111111111111111111111111114T1Anm"]
  ELSE kwargs

\* kwargs at the end of the constructor of a class
kwargsAfter(klass, kwargs) ==
  CASE klass = "Permission" -> Permission_kwargs(kwargs)
    [] klass = "Transfer" -> Transfer_kwargs(kwargs)
    [] klass = "Witness_update" -> Witness_update_kwargs(kwargs)

\* the caller's dict after klass(d) and after klass(**d): with one
\* positional argument kwargs is the caller's dict itself (kwargs = args[0]),
\* with ** it is a new dict
callerMapAfter(klass, form, d) ==
  IF form = "positional" THEN kwargsAfter(klass, d) ELSE d

\* the field maps handed to the three classes
FieldMaps(klass) ==
  CASE klass = "Permission" -> PermissionKwargs
    [] klass = "Transfer" ->
         [from : {foobara}, to : {foobarc},
          amount : {amountString(FALSE, <<1>>, <<0, 0, 0>>, STEEM)},
          memo : {pyAbsent, pyStr(<<>>), pyStr(foo)}]
    [] klass = "Witness_update" ->
         [owner : {xeroc}, url : {foo}, block_signing_key : {"", "STM6KChDK2sns9"}]

\* op = klass(d) or klass(**d), then op = klass(d) or klass(**d) again
construct_call(klass, form, d) ==
  /\ pc = "idle"
  /\ ~call.called
  /\ call' = [op |-> "construct", called |-> TRUE, klass |-> klass, form |-> form,
              d |-> d, after |-> callerMapAfter(klass, form, d),
              second |-> callerMapAfter(klass, form, callerMapAfter(klass, form, d))]
  /\ UNCHANGED tx
  /\ UnchangedBySerializers

\* the transaction of test_Vote, not yet signed
InitCodec ==
  /\ Init
  /\ tx.ref_block_num = 34294
  /\ tx.operations = <<VoteA>>
  /\ tx.signatures = <<>>

NextCodec ==
  \/ \E kwargs \in KwargsCodec : Signed_Transaction_call(kwargs)
  \/ \E d \in SeqsUpTo(Elems, MaxElems) : Array_call(d)
  \/ \E kwargs \in PermissionKwargs : Permission_call(kwargs)
  \/ \E neg \in BOOLEAN, whole \in Wholes, frac \in Fracs, asset \in Assets :
       Amount_call(neg, whole, frac, asset)
  \/ \E operator \in {"__add__", "__sub__", "__iadd__", "__isub__"},
        a \in SteemAmounts, b \in SteemAmounts :
       arithmetic_call(operator, a, b)
  \/ \E name \in OperationNames : Operation_call(name)
  \/ \E i \in 0..MaxOpId : getOperationNameForId_call(i)
  \/ \E kwargs \in Custom_jsonKwargs : Custom_json_call(kwargs)
  \/ \E klass \in Klasses, value \in Metas :
       json_metadata_call(klass, [json_metadata |-> value])
  \/ \E n \in 0..MaxVarint, kind \in {"bytes", "str"} : varintdecode_call(n, kind)
  \/ \E d \in Strs : String_call(d)
  \/ \E d \in OptionalValues : Optional_call(d)
  \/ \E kwargs \in [owner : PermissionValues, active : PermissionValues,
                    posting : PermissionValues] : Account_update_call(kwargs)
  \/ \E klass \in {"Permission", "Transfer", "Witness_update"},
        form \in {"positional", "keywords"} :
       \E d \in FieldMaps(klass) : construct_call(klass, form, d)

SpecCodec == InitCodec /\ [][NextCodec]_vars

(***************************************************************************)
(* steem/chain.py: Blockchain.replay                                       *)
(***************************************************************************)
\* the transaction, its signing and the direct calls
local == <<tx, pc, wifkeys, privkeys, digest, sigs, widx, cnt, outcome,
           before, made, nsign, rec, chain, call, tried>>

pyInt(i) == [kind |-> "int", i |-> i]

\* the highest block number the node reports
MaxBlock == 5

\* the arguments of replay
StartBlocks == 1..3
EndBlocks == {pyNone} \cup {pyInt(n) : n \in 1..4}

\* replay(start_block, end_block), up to line 50: current_block = start_block
replay_call(start_block, end_block) ==
  /\ gen = NoGen
  /\ gen' = [op |-> "replay", pc |-> "props", start_block |-> start_block,
             end_block |-> end_block, current_block |-> start_block,
             last_confirmed_block |-> 0, parsed |-> <<>>]
  /\ UNCHANGED <<local, client, wallet>>

\* lines 53-54: the node reports its last confirmed block number
replay_props(reported) ==
  /\ gen.op = "replay"
  /\ gen.pc = "props"
  /\ gen' = [gen EXCEPT !.last_confirmed_block = reported, !.pc = "inner"]
  /\ UNCHANGED <<local, client, wallet>>

\* lines 56-77: one pass of the inner loop: the block is fetched and parsed,
\* current_block += 1, and the generator returns when end_block is given
\* and current_block has reached it
replay_parse ==
  /\ gen.op = "replay"
  /\ gen.pc = "inner"
  /\ gen.current_block < gen.last_confirmed_block
  /\ gen' = [gen EXCEPT
               !.parsed = Append(@, gen.current_block),
               !.current_block = @ + 1,
               !.pc = IF gen.end_block.kind # "None"
                         /\ gen.current_block + 1 >= gen.end_block.i
                      THEN "returned" ELSE "inner"]
  /\ UNCHANGED <<local, client, wallet>>

\* line 80: the inner loop is left and the generator sleeps for one block
replay_sleep ==
  /\ gen.op = "replay"
  /\ gen.pc = "inner"
  /\ ~(gen.current_block < gen.last_confirmed_block)
  /\ gen' = [gen EXCEPT !.pc = "props"]
  /\ UNCHANGED <<local, client, wallet>>

NextReplay ==
  \/ \E start_block \in StartBlocks, end_block \in EndBlocks :
       replay_call(start_block, end_block)
  \/ \E reported \in 0..MaxBlock : replay_props(reported)
  \/ replay_parse
  \/ replay_sleep

SpecReplay == InitCodec /\ [][NextReplay]_vars

(***************************************************************************)
(* steemapi/steemnoderpc.py: SteemNodeRPC.list_accounts                    *)
(***************************************************************************)
\* the largest step and the largest limit, and the lookups of a run that
\* has no limit
MaxStep == 3
MaxLimit == 5
MaxLookups == 3

\* bool(limit): None and 0 are false
given(limit) == limit.kind # "None" /\ limit.i # 0

\* the test of the while loop, line 190
list_accounts_continues ==
  /\ gen.progress = gen.step
  /\ IF given(gen.limit) THEN gen.number_of_fetched_users < gen.limit.i ELSE TRUE

\* list_accounts(start, step, limit), lines 184-188
list_accounts_call(step, limit) ==
  /\ gen = NoGen
  /\ gen' = [op |-> "list_accounts", pc |-> "loop", limit |-> limit,
             step |-> IF given(limit) /\ limit.i < step THEN limit.i ELSE step,
             asked |-> step, number_of_fetched_users |-> 0,
             progress |-> IF given(limit) /\ limit.i < step THEN limit.i ELSE step,
             yielded |-> 0, lookups |-> 0, short |-> FALSE]
  /\ UNCHANGED <<local, client, wallet>>

\* lines 191-200: one pass of the loop, lookup_accounts returning n names,
\* all of which are yielded
list_accounts_fetch(n) ==
  /\ gen.op = "list_accounts"
  /\ gen.pc = "loop"
  /\ list_accounts_continues
  /\ IF given(gen.limit) THEN TRUE ELSE gen.lookups < MaxLookups
  /\ n <= gen.step
  /\ gen' = [gen EXCEPT
               !.progress = n,
               !.yielded = @ + n,
               !.number_of_fetched_users = IF n > 0 THEN @ + n ELSE @,
               !.lookups = @ + 1,
               !.short = n < gen.step]
  /\ UNCHANGED <<local, client, wallet>>

\* the loop test fails and the generator returns
list_accounts_return ==
  /\ gen.op = "list_accounts"
  /\ gen.pc = "loop"
  /\ ~list_accounts_continues
  /\ gen' = [gen EXCEPT !.pc = "returned"]
  /\ UNCHANGED <<local, client, wallet>>

NextListAccounts ==
  \/ \E step \in 1..MaxStep, limit \in {pyNone} \cup {pyInt(n) : n \in 0..MaxLimit} :
       list_accounts_call(step, limit)
  \/ \E n \in 0..MaxStep : list_accounts_fetch(n)
  \/ list_accounts_return

SpecListAccounts == InitCodec /\ [][NextListAccounts]_vars

(***************************************************************************)
(* steemapi/steemnoderpc.py: SteemNodeRPC.block_stream                     *)
(***************************************************************************)
\* the highest head block number the node reports
MaxHead == 4

\* what get_dynamic_global_properties returns
Props ==
  {[head_block_number |-> h, last_irreversible_block_num |-> l] :
     h \in 1..MaxHead, l \in 1..MaxHead}

\* the block number the mode selects, lines 114-121 and 131-138; -1 for the
\* ValueError of another mode
blockOf(props, mode) ==
  IF mode = "head" THEN props.head_block_number
  ELSE IF mode = "irreversible" THEN props.last_irreversible_block_num
  ELSE -1

\* block_stream(start, mode), lines 108-111: "not start" is true for None
\* and for 0
block_stream_call(start, mode) ==
  /\ gen = NoGen
  /\ gen' = [op |-> "block_stream", mode |-> mode, arg |-> start,
             pc |-> IF start.kind = "None" THEN "start"
                    ELSE IF start.i = 0 THEN "start" ELSE "props",
             start |-> IF start.kind = "None" THEN 0 ELSE start.i,
             head_block |-> 0, blocknum |-> 0, yielded |-> <<>>,
             reported |-> 0]
  /\ UNCHANGED <<local, client, wallet>>

\* lines 111-121: start is taken from the node
block_stream_start(props) ==
  /\ gen.op = "block_stream"
  /\ gen.pc = "start"
  /\ gen' = [gen EXCEPT
               !.pc = IF blockOf(props, gen.mode) = -1 THEN "ValueError" ELSE "props",
               !.start = IF blockOf(props, gen.mode) = -1 THEN @
                         ELSE blockOf(props, gen.mode),
               !.reported = IF blockOf(props, gen.mode) = -1 THEN @
                            ELSE blockOf(props, gen.mode)]
  /\ UNCHANGED <<local, client, wallet>>

\* lines 128-141: the head block is read and the for loop is entered; the
\* number a node reports does not decrease
block_stream_props(props) ==
  /\ gen.op = "block_stream"
  /\ gen.pc = "props"
  /\ blockOf(props, gen.mode) = -1 \/ blockOf(props, gen.mode) >= gen.reported
  /\ gen' = [gen EXCEPT
               !.pc = IF blockOf(props, gen.mode) = -1 THEN "ValueError" ELSE "range",
               !.head_block = IF blockOf(props, gen.mode) = -1 THEN @
                              ELSE blockOf(props, gen.mode),
               !.blocknum = gen.start,
               !.reported = IF blockOf(props, gen.mode) = -1 THEN @
                            ELSE blockOf(props, gen.mode)]
  /\ UNCHANGED <<local, client, wallet>>

\* lines 141-145: the next block of range(start, head_block + 1) is fetched
\* and yielded
block_stream_yield ==
  /\ gen.op = "block_stream"
  /\ gen.pc = "range"
  /\ gen.blocknum <= gen.head_block
  /\ gen' = [gen EXCEPT !.yielded = Append(@, gen.blocknum), !.blocknum = @ + 1]
  /\ UNCHANGED <<local, client, wallet>>

\* lines 147-151: the range is used up: start = head_block + 1, and sleep
block_stream_sleep ==
  /\ gen.op = "block_stream"
  /\ gen.pc = "range"
  /\ gen.blocknum > gen.head_block
  /\ gen' = [gen EXCEPT !.start = gen.head_block + 1, !.pc = "props"]
  /\ UNCHANGED <<local, client, wallet>>

\* the start arguments: None, 0, a block the node has, a block of the future
Starts == {pyNone} \cup {pyInt(n) : n \in 0..MaxHead}

NextBlockStream ==
  \/ \E start \in Starts, mode \in {"head", "irreversible", "latest"} :
       block_stream_call(start, mode)
  \/ \E props \in Props : block_stream_start(props)
  \/ \E props \in Props : block_stream_props(props)
  \/ block_stream_yield
  \/ block_stream_sleep

SpecBlockStream == InitCodec /\ [][NextBlockStream]_vars

(***************************************************************************)
(* steemapi/steemasyncclient.py: SteemAsyncClient                          *)
(***************************************************************************)
\* the most calls made on one connection
MaxCalls == 3

\* a new asyncio.Future for a call id
Future(call_id) == [id |-> call_id, state |-> "pending", completions |-> 0]

\* the future that _witness_pending_rpc holds for a call id: its position
\* in client.futures
pendingFuture(call_id) ==
  CHOOSE f \in 1..Len(client.futures) : <<call_id, f>> \in client._witness_pending_rpc

\* WitnessRPCDispatch.__getattr__.method, lines 215-220, up to the send: the
\* call id is taken and the counter moved on, the future is stored under
\* the id and the query is sent
method_call ==
  /\ client.loop = "running"
  /\ client._witness_call_id < MaxCalls
  /\ client' = [client EXCEPT
       !._witness_call_id = @ + 1,
       !.futures = Append(@, Future(client._witness_call_id)),
       !._witness_pending_rpc =
          {e \in @ : e[1] # client._witness_call_id}
            \cup {<<client._witness_call_id, Len(client.futures) + 1>>},
       !.sent = @ \cup {client._witness_call_id}]
  /\ UNCHANGED <<local, gen, wallet>>

\* future.set_exception(e) and future.set_result(v): the future takes the
\* outcome if it is pending; asyncio raises InvalidStateError otherwise
set_future(future, state) ==
  IF future.state = "pending"
  THEN [future EXCEPT !.state = state, !.completions = @ + 1]
  ELSE future

\* the future of a response after lines 313-318: set_exception for an
\* error, then set_result(r["result"]) in every case
completed(future, r) ==
  IF ~r.result THEN (IF r.error THEN set_future(future, "RPCServerError") ELSE future)
  ELSE set_future(IF r.error THEN set_future(future, "RPCServerError") ELSE future,
                  "result")

\* what lines 313-318 raise in the loop: KeyError for r["result"] of a
\* response without result, InvalidStateError for set_result on a future
\* that is done, "" if nothing
raisedByCompletion(future, r) ==
  IF ~r.result THEN "KeyError"
  ELSE IF r.error \/ future.state # "pending" THEN "InvalidStateError"
  ELSE ""

\* _handle, lines 304-321: a response has arrived on the witness socket
handle_response(r) ==
  /\ client.loop = "running"
  /\ IF \E e \in client._witness_pending_rpc : e[1] = r.id
     THEN client' = [client EXCEPT
            !._witness_pending_rpc = {e \in @ : e[1] # r.id},
            !.futures[pendingFuture(r.id)] = completed(@, r),
            !.loop = IF raisedByCompletion(client.futures[pendingFuture(r.id)], r) = ""
                     THEN "running"
                     ELSE raisedByCompletion(client.futures[pendingFuture(r.id)], r),
            !.handled = Append(@, [r |-> r, matched |-> TRUE,
                                   future |-> pendingFuture(r.id)])]
     ELSE client' = [client EXCEPT
            !.loop = "RPCClientError",
            !.handled = Append(@, [r |-> r, matched |-> FALSE, future |-> 0])]
  /\ UNCHANGED <<local, gen, wallet>>

\* _handle, lines 276-283: the main task is done, the pending map is
\* emptied and the loop is left
main_task_done ==
  /\ client.loop = "running"
  /\ client' = [client EXCEPT !._witness_pending_rpc = {}, !.loop = "done"]
  /\ UNCHANGED <<local, gen, wallet>>

\* the responses of the server: an id, and which of the keys "error" and
\* "result" are there, at least one of them
Responses ==
  {r \in [id : 0..MaxCalls, error : BOOLEAN, result : BOOLEAN] : r.error \/ r.result}

NextAsync ==
  \/ method_call
  \/ \E r \in Responses : handle_response(r)
  \/ main_task_done

SpecAsync == InitCodec /\ [][NextAsync]_vars

(***************************************************************************)
(* steem/wallet.py: Wallet                                                 *)
(***************************************************************************)
\* the most Wallet instances, and the longest list of keys handed over
MaxWallets == 2
MaxLoadKeys == 2

\* format(PrivateKey(wif).pubkey, prefix): the public key of a wif
pubkeyOf(wif) == get_verifying_key(PrivateKey(wif))

\* d[key] = value on a dict kept as a sequence of <<key, value>> in the
\* order of insertion
setitem(d, key, value) ==
  IF \E j \in 1..Len(d) : d[j][1] = key
  THEN [j \in 1..Len(d) |-> IF d[j][1] = key THEN <<key, value>> ELSE d[j]]
  ELSE Append(d, <<key, value>>)

\* the loop of setKeys, lines 97-102, over a list of wifs: every key is
\* stored in the class attribute Wallet.keys
RECURSIVE setKeys(_, _)
setKeys(keys, loadkeys) ==
  IF loadkeys = <<>> THEN keys
  ELSE setKeys(setitem(keys, pubkeyOf(Head(loadkeys)), Head(loadkeys)), Tail(loadkeys))

\* Wallet(keys=loadkeys), lines 56-84: setKeys for a keys argument, the key
\* database otherwise
Wallet_init(loadkeys) ==
  /\ Len(wallet.instances) < MaxWallets
  /\ wallet' = [wallet EXCEPT
       !.keys = IF loadkeys.kind = "None" THEN @ ELSE setKeys(@, loadkeys.items),
       !.instances = Append(@, [given |-> IF loadkeys.kind = "None" THEN {}
                                          ELSE Range(loadkeys.items),
                                keyStorage |-> loadkeys.kind = "None"])]
  /\ UNCHANGED <<local, gen, client>>

\* wallet.setKeys(loadkeys) on an instance, lines 86-102
setKeys_call(self, loadkeys) ==
  /\ self \in 1..Len(wallet.instances)
  /\ wallet' = [wallet EXCEPT
       !.keys = setKeys(@, loadkeys),
       !.instances[self].given = @ \cup Range(loadkeys)]
  /\ UNCHANGED <<local, gen, client>>

\* getPrivateKeyForPublicKey(pub), lines 228-246: Wallet.keys is asked if
\* it holds anything, the key database otherwise
getPrivateKeyForPublicKey(keys, pub) ==
  IF keys # <<>>
  THEN IF \E j \in 1..Len(keys) : keys[j][1] = pub
       THEN [kind |-> "wif", wif |-> keys[CHOOSE j \in 1..Len(keys) : keys[j][1] = pub][2]]
       ELSE IF Len(keys) = 1 THEN [kind |-> "wif", wif |-> keys[1][2]]
       ELSE [kind |-> "None"]
  ELSE [kind |-> "keyStorage"]

getPrivateKeyForPublicKey_call(self, pub) ==
  /\ self \in 1..Len(wallet.instances)
  /\ wallet' = [wallet EXCEPT
       !.asked = <<[self |-> self, pub |-> pub,
                    result |-> getPrivateKeyForPublicKey(wallet.keys, pub)]>>]
  /\ UNCHANGED <<local, gen, client>>

\* the keys arguments: none, or a list of wifs
LoadKeys == SeqsUpTo(Wifs, MaxLoadKeys)

\* the public keys asked for: those of the wifs and one of no wif
AskedPubkeys == Pubkeys \cup {get_verifying_key(5)}

NextWallet ==
  \/ \E loadkeys \in {pyNone} \cup {pyList(l) : l \in LoadKeys} : Wallet_init(loadkeys)
  \/ \E self \in 1..MaxWallets, loadkeys \in LoadKeys : setKeys_call(self, loadkeys)
  \/ \E self \in 1..MaxWallets, pub \in AskedPubkeys :
       getPrivateKeyForPublicKey_call(self, pub)

SpecWallet == InitCodec /\ [][NextWallet]_vars

(***************************************************************************)
(* Properties                                                              *)
(***************************************************************************)

\* r and s of a packed signature, and the lengths DER gives them
rOf(sig) == string_to_number(SubSeq(sig, 2, 1 + baselen))
sOf(sig) == string_to_number(SubSeq(sig, 2 + baselen, 1 + 2 * baselen))
derLengths(r, s) ==
  <<sigencode_der(r, s)[4], sigencode_der(r, s)[6 + sigencode_der(r, s)[4]]>>

\* the distinct keys of a key list in first-seen order
firstSeen(keys) ==
  LET firsts == {q \in 1..Len(keys) : \A o \in 1..(q - 1) : keys[o] # keys[q]}
  IN [j \in 1..Cardinality(firsts) |->
        keys[CHOOSE q \in firsts : Cardinality({o \in firsts : o < q}) = j - 1]]

\* C1: the digest sign() signs is the hash of the chain id and the unsigned
\* body (header fields, operations, extensions), whatever the signatures
\* field holds when sign() is called.
C1_DigestOfUnsignedBody ==
  nsign > 0 => digest = sha256(unhexlify(chain_id) \o unsignedBody(tx))

\* C2: sign() on a transaction holding the signatures S ends with S followed
\* by the new signatures, one per distinct key in processing order.
C2_SignaturesAppended ==
  outcome = "ok" => tx.signatures = before \o sigs

\* the bytes of test_Vote up to the signature: header, one vote, the empty
\* extensions 00 and the signature count 01
VoteVector ==
  <<246, 133, 133, 171, 244, 220, 231, 200, 4, 87, 1, 0, 7>> \o foobara
    \o <<7>> \o foobarc \o <<7>> \o foobard \o <<232, 3, 0, 1>>

\* C3: the wire bytes are the header fields, the operations and the
\* extensions set in this order; signed with one key and without its last
\* signature bytes, a transaction is that body and the signature count 01
\* (the Vote vector for the transaction of test_Vote).
C3_WireOrder ==
  (outcome = "ok" /\ Len(tx.signatures) = 1) =>
     /\ SubSeq(bytes(tx), 1, Len(bytes(tx)) - (1 + 2 * baselen))
          = unsignedBody(tx) \o <<1>>
     /\ (tx.ref_block_num = 34294 /\ tx.operations = <<VoteA>>)
          => SubSeq(bytes(tx), 1, Len(bytes(tx)) - (1 + 2 * baselen)) = VoteVector

\* C4: duplicates of the key list are dropped keeping the first occurrence:
\* after sign() there is one signature per distinct key, and the j-th
\* signature is made with the j-th distinct key in first-seen order.
C4_OnePerDistinctKey ==
  outcome = "ok" =>
     /\ Len(tx.signatures) = Cardinality(Range(wifkeys))
     /\ \A j \in 1..Len(tx.signatures) :
          /\ j <= Len(firstSeen(wifkeys))
          /\ recover_public_key(digest, Tail(tx.signatures[j]),
                                tx.signatures[j][1] - 31)
               = RetKey(get_verifying_key(PrivateKey(firstSeen(wifkeys)[j])))

\* a key list with a repeated key was signed with
C4_Witness ==
  /\ outcome = "ok"
  /\ Len(wifkeys) = 3 /\ wifkeys[1] = wifkeys[3] /\ wifkeys[1] # wifkeys[2]
  /\ Len(tx.signatures) = 2

\* C5: every signature sign() emits is canonical, the DER lengths of its r
\* and s being those of a full-width number; a pass whose candidate is not
\* canonical emits nothing, adds one to the attempt counter and leaves the
\* next pass a nonce derived from the digest and the new counter.
C5_OnlyCanonical ==
  /\ [](\A j \in 1..Len(sigs) :
          derLengths(rOf(sigs[j]), sOf(sigs[j])) = <<baselen, baselen>>)
  /\ [](outcome = "ok" => tx.signatures = sigs)
  /\ [][(/\ inLoop
         /\ nextCandidate.r # 0 /\ nextCandidate.s # 0
         /\ derLengths(nextCandidate.r, nextCandidate.s) # <<baselen, baselen>>)
        => (/\ sigs' = sigs
            /\ cnt' = cnt + 1
            /\ pc' = "sign" /\ widx' = widx
            /\ candidate(PrivateKey(privkeys'[widx']), digest', cnt' + 1).k
                 = generate_k(PrivateKey(privkeys[widx]),
                              sha256(digest \o hex(cnt + 2))))]_vars

\* a signature was emitted after a candidate that was not canonical
C5_Witness == \E j \in 1..Len(made) : made[j].cnt > 1

\* a cap on the attempts of one search that the model can pass
AttemptCap == 4

\* C6: the canonical search is capped: the attempts made for one key never
\* exceed the cap, the search having ended with a signature or an error.
C6_AttemptsCapped == cnt <= AttemptCap

\* C7: every signature sign() makes is 1 + 2 * baselen bytes (65 on
\* secp256k1): the byte i + 4 + 27 for the recovery id i in 0..3, then r and
\* then s at full width.
C7_Layout ==
  \A j \in 1..Len(sigs) :
     /\ Len(sigs[j]) = 1 + 2 * baselen
     /\ made[j].i \in 0..3
     /\ sigs[j][1] = made[j].i + 4 + 27
     /\ sigs[j][1] \in 31..34
     /\ rOf(sigs[j]) = candidate(PrivateKey(made[j].wif), digest, made[j].cnt).r
     /\ sOf(sigs[j]) = candidate(PrivateKey(made[j].wif), digest, made[j].cnt).s

\* two signatures with different recovery bytes were made
C7_Witness == Len(sigs) = 2 /\ sigs[1][1] # sigs[2][1]

\* C8: when no recovery id in 0..3 reproduces the signer's key, sign() fails
\* with SigningInternalError: what recoverPubkeyParameter hands back makes
\* line 579 raise that error and no other.
C8_SigningInternalError ==
  (/\ rec.called /\ rec.op = "recoverPubkeyParameter"
   /\ \A i \in 0..3 :
        recover_public_key(rec.digest, rec.signature, i) # RetKey(rec.pubkey))
    => raisedByParameter(rec.result) = "SigningInternalError"

\* C9: the key recovered from the digest, a signature sign() made and its
\* recovery id is the signer's public key, and no smaller id recovers it.
C9_RoundTrip ==
  \A j \in 1..Len(sigs) :
     /\ recover_public_key(digest, Tail(sigs[j]), sigs[j][1] - 31)
          = RetKey(get_verifying_key(PrivateKey(made[j].wif)))
     /\ \A i \in 0..(sigs[j][1] - 32) :
          recover_public_key(digest, Tail(sigs[j]), i)
            # RetKey(get_verifying_key(PrivateKey(made[j].wif)))

\* a signature whose recovery id is not the first one tried was made
C9_Witness == \E j \in 1..Len(made) : made[j].i >= 2

signerKeys == {get_verifying_key(PrivateKey(privkeys[j])) : j \in 1..Len(privkeys)}

C11_VerifyAfterSign ==
  call.op = "verify" =>
    /\ call.result.kind = "ok" =>
          \A j \in 1..Len(call.pubkeys) :
            \E sig \in Range(tx.signatures) :
              recover_signer(verify_digest_fresh(tx), sig) = RetKey(call.pubkeys[j])
    /\ (outcome = "ok" /\ Range(call.pubkeys) \subseteq signerKeys) =>
          call.result.kind = "ok"

\* C12: while sign() runs under one chain identifier, its digest differs
\* from the digest of the same body under any other chain identifier, and
\* no signature it has made recovers the signer's key from that other digest.
C12_ChainSensitive ==
  pc = "sign" =>
    \A other \in Chains \ {chain} :
      /\ digest # digestFor(tx, other)
      /\ \A j \in 1..Len(sigs) :
           recover_public_key(digestFor(tx, other),
                              SubSeq(sigs[j], 2, Len(sigs[j])), made[j].i)
             # RetKey(get_verifying_key(PrivateKey(made[j].wif)))

\* C13: two signatures made with the same key over the same digest at the
\* same attempt use the same nonce and are byte-identical, and so are the
\* signatures two runs of sign() emit for the same key over the same digest.
C13_Deterministic ==
  /\ \A a, b \in tried :
       (a.wif = b.wif /\ a.digest = b.digest /\ a.n = b.n) =>
         (a.k = b.k /\ a.signature = b.signature)
  /\ \A a, b \in tried :
       (a.wif = b.wif /\ a.digest = b.digest /\ a.run # b.run
          /\ a.emitted /\ b.emitted) =>
         (a.n = b.n /\ a.signature = b.signature)

\* the same key has signed the same digest in two runs of sign()
C13_Witness ==
  \E a, b \in tried :
    /\ a.wif = b.wif /\ a.digest = b.digest /\ a.n = b.n /\ a.run # b.run
    /\ a.emitted /\ b.emitted

\* the encodings d[1], ..., d[n] one after the other
RECURSIVE inOrder(_, _)
inOrder(d, n) == IF n = 0 THEN <<>> ELSE inOrder(d, n - 1) \o d[n]

\* b is a reordering of a, and not a itself
reordered(a, b) ==
  /\ Len(a) = Len(b)
  /\ a # b
  /\ \A e \in Range(a) \cup Range(b) :
       Cardinality({j \in 1..Len(a) : a[j] = e})
         = Cardinality({j \in 1..Len(b) : b[j] = e})

\* C14: an Array or Set is the varint count and the element encodings in
\* the given order; a transaction keeps its operations as given, its wire
\* bytes and digest hold them in that order, and a transaction with the
\* same operations in another order has other bytes.
C14_CallerOrder ==
  /\ call.op = "Array" =>
       /\ call.bytes = varint(Len(call.d)) \o inOrder(call.d, Len(call.d))
       /\ call.setbytes = call.bytes
  /\ call.op = "Signed_Transaction" =>
       /\ tx.operations = call.kwargs.operations
       /\ call.bytes =
            Uint16(tx.ref_block_num) \o Uint32(tx.ref_block_prefix)
              \o PointInTime(tx.expiration)
              \o varint(Len(call.kwargs.operations))
              \o inOrder([j \in 1..Len(call.kwargs.operations) |->
                            Operation(call.kwargs.operations[j])],
                         Len(call.kwargs.operations))
              \o <<0>>
       /\ call.digest = sha256(unhexlify(chain_id) \o call.bytes)
       /\ \A other \in KwargsCodec :
            reordered(call.kwargs.operations, other.operations) =>
              bytes(Signed_Transaction(other)) # call.bytes

\* a transaction of two different operations, of which a reordering exists
C14_Witness ==
  /\ call.op = "Signed_Transaction"
  /\ \E other \in KwargsCodec :
       reordered(call.kwargs.operations, other.operations)
  /\ call.bytes = bytes(tx)

\* C15: a Permission built from any reordering of its key_auths and
\* account_auths lists has the same bytes, also when a key or an account
\* appears twice with different weights.
C15_OrderInvariant ==
  call.op = "Permission" =>
    \A other \in PermissionKwargs :
      (/\ \/ other.key_auths = call.kwargs.key_auths
           \/ reordered(call.kwargs.key_auths, other.key_auths)
       /\ \/ other.account_auths = call.kwargs.account_auths
           \/ reordered(call.kwargs.account_auths, other.account_auths))
        => Permission(other) = call.bytes

\* the number eight little-endian two's complement bytes stand for, for
\* numbers of up to 31 bits
unpack_q(b) ==
  IF b[4] < 128
  THEN b[1] + 256 * b[2] + 65536 * b[3] + 16777216 * b[4]
  ELSE -(1 + (255 - b[1]) + 256 * (255 - b[2]) + 65536 * (255 - b[3])
           + 16777216 * (255 - b[4]))

RECURSIVE numeral(_)
numeral(digits) ==
  IF digits = <<>> THEN 0
  ELSE 10 * numeral(SubSeq(digits, 1, Len(digits) - 1)) + digits[Len(digits)]

\* m is whole.frac * 10^p rounded to a nearest integer
nearest(m, whole, frac, p) ==
  LET rest == m - numeral(whole) * Pow10(p)
  IN IF Len(frac) <= p THEN rest = numeral(frac) * Pow10(p - Len(frac))
     ELSE LET e == rest * Pow10(Len(frac) - p) - numeral(frac)
          IN 2 * e <= Pow10(Len(frac) - p) /\ -2 * e <= Pow10(Len(frac) - p)

C17_MatchingAssets ==
  (call.op \in {"__add__", "__sub__", "__iadd__", "__isub__"}
     /\ call.self.asset # call.other.asset)
    => call.result.kind # "Amount"

\* the tags the tests assert
assertedTags ==
  <<<<"vote", 0>>, <<"comment", 1>>, <<"transfer", 2>>,
    <<"transfer_to_vesting", 3>>, <<"limit_order_create", 5>>,
    <<"limit_order_cancel", 6>>, <<"convert", 8>>, <<"account_create", 9>>,
    <<"account_update", 10>>, <<"set_withdraw_vesting_route", 20>>>>

\* C18: the tag written for an operation is the opcode of its name, the
\* table holds the tags the tests assert, no two names share a tag, and a
\* name mapped to its tag and back is the same name.
C18_OpcodeTable ==
  /\ \A j, k \in 1..Len(operationItems) :
       operationItems[j][2] = operationItems[k][2] => j = k
  /\ call.op = "Operation" =>
       /\ \A j \in 1..Len(assertedTags) :
            call.name = assertedTags[j][1] =>
              /\ call.result.kind = "ok"
              /\ call.result.opId = assertedTags[j][2]
              /\ call.result.tag = <<assertedTags[j][2]>>
       /\ call.result.kind = "ok" => call.result.back = Str(call.name, -1)

\* C19: an id that is not in the table is not mapped to a name:
\* getOperationNameForId fails with UnknownOperationError and returns no
\* str.
C19_UnknownOperation ==
  (call.op = "getOperationNameForId"
     /\ \A j \in 1..Len(operationItems) : operationItems[j][2] # call.i)
    => (call.result.kind = "raise" /\ call.result.error = "UnknownOperationError")

\* C20: Custom_json with an id whose UTF-8 encoding has 33 bytes or more
\* fails and gives no operation, and with an id of 32 bytes or fewer it
\* succeeds, ids with multi-byte characters included (a json being given).
C20_IdLength ==
  (call.op = "Custom_json" /\ call.kwargs.json # <<>>) =>
    /\ Len(utf8(call.kwargs.id)) >= 33 => call.result.kind = "raise"
    /\ Len(utf8(call.kwargs.id)) <= 32 => call.result.kind = "ok"

\* the str a json_metadata value stands for: nothing for no value or an
\* empty one, the JSON text of a dict or list, the str itself otherwise
metadataText(v) ==
  IF v.kind = "absent" THEN <<>>
  ELSE IF ~bool(v) THEN <<>>
  ELSE IF v.kind = "str" THEN v.text
  ELSE dumps(v)

\* C21: Comment, Account_create and Account_update take a structured value
\* or a raw str as json_metadata and encode it as a length-prefixed JSON str;
\* no metadata or empty metadata is encoded as the one byte 0x00; no such
\* value is an error.
C21_JsonMetadata ==
  call.op = "json_metadata" =>
    /\ call.result.kind = "ok"
    /\ call.result.json_metadata =
         varint(Len(utf8(metadataText(call.kwargs.json_metadata))))
           \o utf8(metadataText(call.kwargs.json_metadata))
    /\ (call.kwargs.json_metadata.kind = "absent" \/ ~bool(call.kwargs.json_metadata))
         => call.result.json_metadata = <<0>>

\* C22: decode is paired with encode: varintdecode(varint(n)) = n for every
\* n >= 0, varint(n) being the bytes object that varint returns.
C22_VarintRoundTrip ==
  (call.op = "varintdecode" /\ call.kind = "bytes") => call.result = RetInt(call.n)

\* C23: a String is encoded as a varint length prefix followed by its UTF-8
\* bytes, and the prefix is the number of bytes that follow it, for every
\* str, strs with multi-byte characters included.
C23_StringPrefix ==
  call.op = "String" =>
    call.result = varint(Len(utf8(call.d))) \o utf8(call.d)

\* the bytes an Optional is to give: 0x00 for no value or a value whose
\* encoding is empty, 0x01 and the value's bytes otherwise
expectedOptional(d) ==
  IF d.kind = "None" THEN <<0>>
  ELSE IF d.bytes = <<>> THEN <<0>>
  ELSE <<1>> \o d.bytes

\* the names of the Optional fields that hold a value with bytes
RECURSIVE expectedNames(_)
expectedNames(fields) ==
  IF fields = <<>> THEN <<>>
  ELSE (IF Head(fields).optional /\ expectedOptional(Head(fields).data) = <<0>>
        THEN <<>> ELSE <<Head(fields).name>>) \o expectedNames(Tail(fields))

\* C24: an Optional is encoded as one presence byte and the value's bytes
\* when a value is present, and as the single byte 0x00 when the value is
\* absent or its encoding is empty; so also in an Account_update that leaves
\* out owner, active or posting, and an empty Optional is left out of the
\* JSON form.
C24_OptionalAbsent ==
  /\ call.op = "Optional" =>
       /\ call.result.kind = "ok"
       /\ call.result.bytes = expectedOptional(call.d)
       /\ call.empty.kind = "ok"
       /\ call.empty.value = (expectedOptional(call.d) = <<0>>)
  /\ call.op = "Account_update" =>
       /\ call.result.kind = "ok"
       /\ call.result.bytes =
            Flatten([j \in 1..Len(call.fields) |->
                       IF call.fields[j].optional
                       THEN expectedOptional(call.fields[j].data)
                       ELSE call.fields[j].data.bytes])
       /\ call.json.kind = "ok"
       /\ call.json.names = expectedNames(call.fields)

\* the block numbers first..last in increasing order
blocksFromTo(first, last) == [j \in 1..(last - first + 1) |-> first + j - 1]

\* C25: when replay(start_block, end_block) returns it has parsed every
\* block from start_block to end_block, each once and in increasing order,
\* end_block being the last one, whatever block numbers the node reported.
C25_ReplayThroughEnd ==
  (gen.op = "replay" /\ gen.pc = "returned"
     /\ gen.start_block <= gen.end_block.i)
    => gen.parsed = blocksFromTo(gen.start_block, gen.end_block.i)

\* C26: list_accounts with a limit yields at most limit account names,
\* whatever the step and whatever lookup_accounts returns, and makes no
\* further lookup once one has returned fewer than step names or the limit
\* is reached.
C26_AtMostLimit ==
  (gen.op = "list_accounts" /\ given(gen.limit)) =>
    /\ gen.yielded <= gen.limit.i
    /\ (gen.short \/ gen.yielded >= gen.limit.i) => ~list_accounts_continues

\* C27: block_stream(start, mode) yields the blocks start, start + 1,
\* start + 2, ... in order, without gap or duplicate, and no block number
\* above the one the node last reported, for every start that is given
\* (0 included) and every non-decreasing sequence of reported numbers.
C27_ConsecutiveFromStart ==
  (gen.op = "block_stream" /\ gen.arg.kind = "int") =>
    /\ gen.yielded = blocksFromTo(gen.arg.i, gen.arg.i + Len(gen.yielded) - 1)
    /\ \A j \in 1..Len(gen.yielded) : gen.yielded[j] <= gen.reported

\* C28: every call gets a call id that no other pending call of the
\* connection has; a response whose id is pending completes that call's
\* future exactly once and removes it from the pending map, with
\* RPCServerError if the response carries an error and with the result
\* otherwise, and the receive loop does not fail; a response whose id is
\* not pending raises RPCClientError.
C28_ResponseCompletesOnce ==
  /\ \A e, f \in client._witness_pending_rpc : e[1] = f[1] => e = f
  /\ \A j, k \in 1..Len(client.futures) :
       (client.futures[j].id = client.futures[k].id
          /\ client.futures[j].state = "pending"
          /\ client.futures[k].state = "pending") => j = k
  /\ \A h \in 1..Len(client.handled) :
       IF client.handled[h].matched
       THEN /\ client.futures[client.handled[h].future].completions = 1
            /\ client.futures[client.handled[h].future].state =
                 (IF client.handled[h].r.error THEN "RPCServerError" ELSE "result")
            /\ \A e \in client._witness_pending_rpc : e[2] # client.handled[h].future
            /\ h = Len(client.handled) => client.loop \in {"running", "done"}
       ELSE client.loop = "RPCClientError"

\* C29: getPrivateKeyForPublicKey(pub) returns a private key only if the
\* public key of that key is pub, and a key handed over through the keys
\* argument or setKeys of one Wallet instance is not returned by an instance
\* that was not given it.
C29_OwnMatchingKey ==
  \A j \in 1..Len(wallet.asked) :
    wallet.asked[j].result.kind = "wif" =>
      /\ pubkeyOf(wallet.asked[j].result.wif) = wallet.asked[j].pub
      /\ wallet.asked[j].result.wif \in wallet.instances[wallet.asked[j].self].given

\* C30: constructing an operation or a Permission from a field map of the
\* caller leaves that map as it was: no key is added, no list in it is
\* replaced or reordered, and a second construction from the same map sees
\* the same input.
C30_MapUnchanged ==
  call.op = "construct" => (call.after = call.d /\ call.second = call.d)

====
